---- MODULE Spec2Model ----
(***************************************************************************)
(* Model of the end-to-end voice dialogue gateway of the repository:       *)
(*   - E2EDialogClient     (src/backend/services/e2e/client.py)            *)
(*   - E2EDialogService    (src/backend/services/e2e/service.py)           *)
(*   - E2EConnectionManager and the endpoint                               *)
(*                         (src/backend/api/e2e_websocket.py)              *)
(* One client connection on the process-wide manager, one upstream socket  *)
(* at a time.  The tasks of the asyncio loop are the reader (the endpoint  *)
(* loop), the client's receive loop and the forwarder tasks; they          *)
(* interleave at the awaits that can suspend (queue get, timed wait,       *)
(* socket read).  A socket write puts the frame on the transport when it   *)
(* is called, so the order of the writes is the order of the send calls.   *)
(***************************************************************************)
EXTENDS Integers, Sequences, FiniteSets, TLC

\* ------------------------------------------------------------- bounds
MaxMsgs == 3
MaxUp == 2
MaxFwd == 2
MaxClock == 15
TickSeconds == 5
MaxConns == 2

\* -------------------------------------------------- program constants
EVENT_START_CONNECTION == 1
EVENT_FINISH_CONNECTION == 2
EVENT_START_SESSION == 100
EVENT_FINISH_SESSION == 102
EVENT_TASK_REQUEST == 200
EVENT_SAY_HELLO == 300
EVENT_CHAT_TEXT_QUERY == 501
EVENT_CONNECTION_STARTED == 50
EVENT_SESSION_STARTED == 150
EVENT_SESSION_FINISHED == 152
EVENT_SESSION_FAILED == 153
EVENT_TTS_SENTENCE_START == 350
EVENT_TTS_RESPONSE == 352
EVENT_TTS_ENDED == 359
EVENT_ASR_INFO == 450
EVENT_ASR_RESPONSE == 451
EVENT_ASR_ENDED == 459
EVENT_CHAT_RESPONSE == 550
EVENT_CHAT_ENDED == 559
EVENT_DIALOG_COMMON_ERROR == 599
StartSessionTimeout == 10

VARIABLES
    \* the endpoint's reader loop
    nMsgs,              \* client messages handled so far
    readerPc,           \* "idle" | "ss_wait" (in service.start_session) | "closed"
    ssSent,             \* index in upSent of the START_SESSION the running call sent, 0 if none
    waited,             \* seconds the running wait_for(queue.get(), 10) has waited
    sinceCall,          \* seconds since service.start_session was called
    clientOut,          \* envelopes written to the client socket, in order
    \* E2EConnectionManager
    active_connection,  \* self.active_connection is not None
    e2e_service,        \* self.e2e_service is not None
    mgr_receive_task,   \* self._receive_task: id of the forwarder it holds, 0 if None
    \* E2EDialogService
    hasClient,          \* self._client is not None
    interrupted,        \* self._interrupted
    responseQueue,      \* self._response_queue
    errorQueue,         \* self._error_queue
    \* E2EDialogClient
    ws,                 \* self._ws: "none" | "open" | "closed" (object kept, transport gone)
    connected,          \* self._connected
    sessionStarted,     \* self._session_started
    recvTask,           \* the receive task is running
    \* upstream dialogue service and the wire
    upSent,             \* frames written on the upstream socket
    upRead,             \* how many of them upstream has processed
    upSess,             \* upstream has a session running
    nSpont,             \* frames upstream has written of its own accord (turn frames, errors)
    nUp,                \* frames upstream has written
    \* forwarder tasks (E2EConnectionManager._receive_responses)
    fwd,                \* id -> [pc, fr, tts_seq, text, warned]
    nFwd,               \* forwarder tasks created
    \* history
    sessWindow,         \* a SESSION_STARTED was handled and nothing has ended the session since
    freshAfterInt,      \* a request (audio, text, hello) was sent after the last interrupt
    turnInterrupted,    \* an interrupt was handled and no new turn or session was started since
    expectSeq,          \* tts_chunk envelopes written since the turn began (asr_started,
                        \* tts_ended, an interrupt or a new session)
    lastStart,          \* what the last session_started envelope rested on
    lostFrames,         \* ids of the turn frames start_session has taken off the queue
    endedOn,            \* <<forwarder, kind of the error>> for the forwarders an error has ended
    turnChats,          \* ids of the frames of the chat_text envelopes written in the running
                        \* turn (since asr_started, tts_ended, an interrupt or a new session)
    \* the ASR endpoint (api/websocket.py): ConnectionManager and its reader loop
    asr_connection,     \* manager.active_connection is not None
    asrOut,             \* envelopes written to the client of the ASR endpoint
    asrMsgs,            \* text frames the ASR endpoint has handled
    \* task cancellation, for the steps of disconnect()
    fwdCancel,          \* forwarder tasks cancel() was called on and that have not ended yet
    recvCancel,         \* cancel() was called on the receive task and it has not ended yet
    \* several connections on the one e2e_manager
    conn_pc,            \* connection -> "none" | "idle" | "sending" | "closed": its reader
    conn_msgs,          \* connection -> messages its reader has handled
    conn_out,           \* connection -> envelopes written to its socket
    shared_active_connection,   \* e2e_manager.active_connection: a connection, 0 if None
    shared_e2e_service,         \* e2e_manager.e2e_service: a service, 0 if None
    shared_receive_task,        \* e2e_manager._receive_task: the service its forwarder
                                \* iterates, 0 if None
    services,           \* service -> [started, owner, closed, closedBy, fwd, frames]
    wire,               \* service -> frames written on its upstream socket
    send_on,            \* connection -> the service on whose socket its reader is inside
                        \* ws.send, 0 if none
    \* the frame codecs
    codec_call,         \* the last build call: its arguments and the frame it returned
    codec_result,       \* what the parse operation returned for that frame
    \* TextSplitter (services/text_splitter.py)
    buffer,             \* self.buffer, a sequence of code points
    fedText,            \* the chunks fed so far, concatenated
    yielded,            \* the sentences the feed calls yielded and the results of flush
    nFeeds,             \* feed calls made
    lastCall,           \* "none" | "feed" | "flush": the last call made on the splitter
    \* ContextManager (services/context_manager.py)
    config,             \* self.config: [max_tokens, chars_per_token, min_history_count]
    messages,           \* self.messages: [role, content], content being its length
    nAdds,              \* add_user_message and add_assistant_message calls made
    \* ConversationService (services/conversation_service.py)
    current_emotion,    \* self.current_emotion, a text
    llm_chunks,         \* the pieces of the last response of the LLM
    llm_response,       \* the last ParsedResponse: [content, emotion, is_valid]
    nTurns,             \* process_user_input and process_user_input_stream calls made
    \* the callbacks of E2EDialogClient, as _handle_response calls them
    received,           \* the parsed responses the receive loop has got, in order
    on_response_calls,  \* the responses on_response was called with
    on_error_calls,     \* [fr, fatal]: the responses on_error was called for
    raw_frames,         \* the bytes the socket delivered, one entry per entry of received
    \* a streamed turn: ConversationService.process_user_input_stream around
    \* StreamProcessor.process
    sp_pc,              \* where the turn stands
    _interrupted,       \* StreamProcessor._interrupted
    llm_left,           \* the chunks chat_stream has still to give
    sp_user_text,       \* user_text of the call
    sp_full_response,   \* full_response of process
    sp_seq,             \* seq of process
    pending,            \* the cleaned sentence synthesize was called with
    cs_full_text,       \* full_text of process_user_input_stream
    tts_started,        \* the synthesize calls of the turn: [text, issued]
    chunks_out,         \* the TTSChunks the turn has yielded
    interrupt_issued,   \* "none" | "before_start" | "running": when interrupt() was called
    nStreams            \* streamed turns begun

rdrVars == <<nMsgs, readerPc, ssSent, waited, sinceCall>>
mgrVars == <<active_connection, e2e_service, mgr_receive_task>>
svcVars == <<hasClient, interrupted, responseQueue, errorQueue>>
cliVars == <<ws, connected, sessionStarted, recvTask>>
upVars == <<upSent, upRead, upSess, nSpont, nUp>>
fwdVars == <<fwd, nFwd>>
histVars == <<sessWindow, freshAfterInt, turnInterrupted, expectSeq, lastStart, lostFrames,
              endedOn, turnChats>>
asrVars == <<asr_connection, asrOut, asrMsgs>>
shutVars == <<fwdCancel, recvCancel>>
twoVars == <<conn_pc, conn_msgs, conn_out, shared_active_connection, shared_e2e_service,
             shared_receive_task, services, wire, send_on>>
codecVars == <<codec_call, codec_result>>
splitVars == <<buffer, fedText, yielded, nFeeds, lastCall>>
ctxVars == <<config, messages, nAdds>>
convVars == <<current_emotion, llm_chunks, llm_response, nTurns>>
dispatchVars == <<received, on_response_calls, on_error_calls, raw_frames>>
streamVars == <<sp_pc, _interrupted, llm_left, sp_user_text, sp_full_response, sp_seq, pending,
                cs_full_text, tts_started, chunks_out, interrupt_issued, nStreams>>
auxVars == <<asrVars, shutVars, twoVars, codecVars, splitVars, ctxVars, convVars, dispatchVars, streamVars>>
vars == <<rdrVars, clientOut, mgrVars, svcVars, cliVars, upVars, fwdVars, histVars, auxVars>>

\* ------------------------------------------------------------ helpers
Min(a, b) == IF a < b THEN a ELSE b

FwdIds == 1..MaxFwd

NoFrame == [ev |-> 0, mt |-> "NONE", id |-> 0, ans |-> 0]

\* A parsed upstream frame: event, message_type, and two history fields: id numbers
\* the frames upstream writes in wire order, ans is the index in upSent of the
\* START_SESSION frame a SESSION_STARTED answers.
Frame(e, m, i, a) == [ev |-> e, mt |-> m, id |-> i, ans |-> a]

\* An envelope written to the client; src is the id of the upstream frame it was
\* produced from (0 when it was produced from none).
Envelope(t, s, x, c, i) == [type |-> t, seq |-> s, text |-> x, code |-> c, src |-> i]

\* A forwarder task: its position, the response it holds, the locals tts_seq and
\* full_chat_text (the ids of the frames whose text it has appended) and the id of
\* the last non-fatal error it has logged.
NoForwarder == [pc |-> "none", fr |-> NoFrame, tts_seq |-> 0, text |-> <<>>, warned |-> 0]

\* ------------------------------------------------- E2EDialogClient (pure parts)

\* is_connected: self._connected and self._ws is not None
is_connected == connected /\ ws # "none"

\* is_session_started: the property the service's guards read
is_session_started == sessionStarted

\* A variant of SessionFlagAfter in which SESSION_FINISHED leaves the flag alone.
SessionFlagKeptOnFinished(ev, cur) ==
    IF ev = EVENT_SESSION_STARTED THEN TRUE
    ELSE IF ev = EVENT_SESSION_FAILED THEN FALSE
    ELSE cur

\* _handle_response, session state: the value of _session_started after a frame
SessionFlagAfter(ev, cur) ==
    IF ev = EVENT_SESSION_STARTED THEN TRUE
    ELSE IF ev = EVENT_SESSION_FINISHED THEN FALSE
    ELSE IF ev = EVENT_SESSION_FAILED THEN FALSE
    ELSE cur

\* A variant of Route in which a DIALOG_COMMON_ERROR is handed on as a response.
RouteDialogErrorOn(fr) ==
    IF fr.ev = EVENT_SESSION_FAILED THEN "error_fatal"
    ELSE IF fr.mt = "SERVER_ERROR" THEN "error"
    ELSE "response"

\* _handle_response, dispatch: which callback a frame is handed to
Route(fr) ==
    IF fr.ev = EVENT_SESSION_FAILED THEN "error_fatal"
    ELSE IF fr.mt = "SERVER_ERROR" THEN "error"
    ELSE IF fr.ev = EVENT_DIALOG_COMMON_ERROR THEN "error"
    ELSE "response"

\* A frame written on the upstream socket; st records _session_started at the send
Sent(e) == [ev |-> e, st |-> sessionStarted]

\* ------------------------------------------------ E2EDialogService (pure parts)

\* service.is_connected: self._client is not None and self._client.is_connected
svc_is_connected == hasClient /\ is_connected

\* _convert_response: the normalized type of a frame, "none" when it yields None.
\* Payloads are well-formed: a CHAT_RESPONSE carries content, an ASR_RESPONSE a
\* result with text, a TTS_SENTENCE_START a dict, a TTS_RESPONSE audio bytes.
ConvertResponse(fr) ==
    IF fr.ev = EVENT_ASR_INFO THEN "asr_started"
    ELSE IF fr.ev = EVENT_ASR_RESPONSE THEN "asr_result"
    ELSE IF fr.ev = EVENT_ASR_ENDED THEN "asr_ended"
    ELSE IF fr.ev = EVENT_CHAT_RESPONSE THEN "chat_text"
    ELSE IF fr.ev = EVENT_CHAT_ENDED THEN "chat_ended"
    ELSE IF fr.ev = EVENT_TTS_SENTENCE_START THEN "tts_start"
    ELSE IF fr.ev = EVENT_TTS_RESPONSE
         THEN (IF fr.mt = "SERVER_ACK" THEN "tts_chunk" ELSE "none")
    ELSE IF fr.ev = EVENT_TTS_ENDED THEN "tts_ended"
    ELSE "none"

\* The normalized types _receive_responses writes an envelope for
EnvelopeTypes == {"asr_result", "asr_ended", "chat_text", "tts_chunk", "tts_ended"}

\* receive_responses, line 249: a dequeued response is dropped when the flag is set
DropsResponse == interrupted

\* start_session, line 148: the dequeued frame ends the wait with success
IsSessionStartedFrame(fr) == fr.ev = EVENT_SESSION_STARTED

\* -------------------------------------------- E2EConnectionManager (pure parts)

\* send_message: writes to the client only while a connection is stored
SendToClient(out, env) == IF active_connection THEN Append(out, env) ELSE out

ErrorEnvelope(code, i) == Envelope("error", 0, <<>>, code, i)

\* ---------------------------------------------------------------- Init
Init ==
    /\ nMsgs = 0
    /\ readerPc = "idle"
    /\ ssSent = 0
    /\ waited = 0
    /\ sinceCall = 0
    /\ clientOut = <<>>
    /\ active_connection = TRUE
    /\ e2e_service = TRUE
    /\ mgr_receive_task = 0
    /\ hasClient = FALSE
    /\ interrupted = FALSE
    /\ responseQueue = <<>>
    /\ errorQueue = <<>>
    /\ ws = "none"
    /\ connected = FALSE
    /\ sessionStarted = FALSE
    /\ recvTask = FALSE
    /\ upSent = <<>>
    /\ upRead = 0
    /\ upSess = FALSE
    /\ nSpont = 0
    /\ nUp = 0
    /\ fwd = [f \in FwdIds |-> NoForwarder]
    /\ nFwd = 0
    /\ sessWindow = FALSE
    /\ freshAfterInt = FALSE
    /\ turnInterrupted = FALSE
    /\ expectSeq = 0
    /\ lastStart = [ev |-> 0, ans |-> 0, call |-> 0]
    /\ lostFrames = {}
    /\ endedOn = {}
    /\ turnChats = <<>>
    /\ asr_connection = TRUE
    /\ asrOut = <<>>
    /\ asrMsgs = 0
    /\ fwdCancel = {}
    /\ recvCancel = FALSE
    /\ conn_pc = [c \in 1..MaxConns |-> "none"]
    /\ conn_msgs = [c \in 1..MaxConns |-> 0]
    /\ conn_out = [c \in 1..MaxConns |-> <<>>]
    /\ shared_active_connection = 0
    /\ shared_e2e_service = 0
    /\ shared_receive_task = 0
    /\ services = [s \in 1..MaxConns |->
                      [started |-> FALSE, owner |-> 0, closed |-> FALSE, closedBy |-> 0,
                       fwd |-> FALSE, frames |-> 0]]
    /\ wire = [s \in 1..MaxConns |-> <<>>]
    /\ send_on = [c \in 1..MaxConns |-> 0]
    /\ codec_call =
           [kind |-> "none", event_id |-> 0, session_id |-> <<>>, payload |-> <<>>, seq |-> 0,
            is_last |-> FALSE, message_type |-> 0, use_compression |-> FALSE,
            frame |-> <<>>]
    /\ codec_result =
           [parser |-> "none",
            e2e |-> [message_type |-> "", has_seq |-> FALSE, seq |-> 0, has_event |-> FALSE,
                     event |-> 0, has_session_id |-> FALSE, session_id |-> <<>>,
                     has_code |-> FALSE, code |-> 0, payload_kind |-> "none",
                     payload_msg |-> <<>>],
            utils |-> [kind |-> "None", code |-> 0, doc |-> <<>>]]
    /\ buffer = <<>>
    /\ fedText = <<>>
    /\ yielded = <<>>
    /\ nFeeds = 0
    /\ lastCall = "none"
    /\ config = [max_tokens |-> 0, chars_per_token |-> <<1, 1>>, min_history_count |-> 0]
    /\ messages = <<>>
    /\ nAdds = 0
    /\ current_emotion = <<40664, 35748, 38506, 20276>>
    /\ llm_chunks = <<>>
    /\ llm_response = [content |-> <<>>, emotion |-> <<>>, is_valid |-> FALSE]
    /\ nTurns = 0
    /\ received = <<>>
    /\ on_response_calls = <<>>
    /\ on_error_calls = <<>>
    /\ raw_frames = <<>>
    /\ sp_pc = "idle"
    /\ _interrupted = FALSE
    /\ llm_left = <<>>
    /\ sp_user_text = 0
    /\ sp_full_response = <<>>
    /\ sp_seq = 0
    /\ pending = <<>>
    /\ cs_full_text = <<>>
    /\ tts_started = <<>>
    /\ chunks_out = <<>>
    /\ interrupt_issued = "none"
    /\ nStreams = 0

\* ------------------------------------------------- the upstream service
\* Upstream reads the frames in the order they were written.  What it may write
\* next: the answer to the frame it reads next, or, while a session runs, a frame of
\* a turn or an error.  An offer is the frame with upstream's state after it.
Offer(e, m, a, s, r, n) ==
    [ev |-> e, mt |-> m, ans |-> a, sess |-> s, read |-> r, spont |-> n]

UpAnswers ==
    IF upRead >= Len(upSent) THEN {}
    ELSE LET m == upSent[upRead + 1]
             r == upRead + 1
         IN IF m.ev = EVENT_START_CONNECTION
            THEN {Offer(EVENT_CONNECTION_STARTED, "SERVER_FULL_RESPONSE", 0, upSess, r, nSpont)}
            ELSE IF m.ev = EVENT_START_SESSION /\ ~upSess
            THEN {Offer(EVENT_SESSION_STARTED, "SERVER_FULL_RESPONSE", r, TRUE, r, nSpont),
                  Offer(EVENT_SESSION_FAILED, "SERVER_FULL_RESPONSE", 0, FALSE, r, nSpont)}
            ELSE IF m.ev = EVENT_START_SESSION
            THEN {Offer(EVENT_DIALOG_COMMON_ERROR, "SERVER_FULL_RESPONSE", 0, upSess, r, nSpont)}
            ELSE IF m.ev = EVENT_FINISH_SESSION /\ upSess
            THEN {Offer(EVENT_SESSION_FINISHED, "SERVER_FULL_RESPONSE", 0, FALSE, r, nSpont)}
            ELSE {}

TurnEvents == {EVENT_ASR_INFO, EVENT_CHAT_RESPONSE, EVENT_TTS_RESPONSE, EVENT_TTS_ENDED}

UpStreams ==
    IF ~upSess \/ nSpont >= MaxUp THEN {}
    ELSE {Offer(e, IF e = EVENT_TTS_RESPONSE THEN "SERVER_ACK" ELSE "SERVER_FULL_RESPONSE", 0,
                upSess, upRead, nSpont + 1) : e \in TurnEvents}
         \cup {Offer(EVENT_DIALOG_COMMON_ERROR, "SERVER_FULL_RESPONSE", 0, upSess, upRead, nSpont + 1),
               Offer(0, "SERVER_ERROR", 0, upSess, upRead, nSpont + 1),
               Offer(EVENT_SESSION_FAILED, "SERVER_FULL_RESPONSE", 0, FALSE, upRead, nSpont + 1)}

\* Upstream reads a frame it does not answer with a frame of its own: a request (the
\* frames of the turn follow as the stream), a FINISH_SESSION without a session, a
\* FINISH_CONNECTION.
UpAbsorb ==
    /\ ws = "open"
    /\ upRead < Len(upSent)
    /\ LET m == upSent[upRead + 1] IN
       \/ m.ev \in {EVENT_TASK_REQUEST, EVENT_CHAT_TEXT_QUERY, EVENT_SAY_HELLO}
       \/ m.ev = EVENT_FINISH_SESSION /\ ~upSess
       \/ m.ev = EVENT_FINISH_CONNECTION
    /\ upRead' = upRead + 1
    /\ UNCHANGED <<rdrVars, clientOut, mgrVars, svcVars, cliVars, upSent, upSess, nSpont, nUp,
                   fwdVars, histVars>>
    /\ UNCHANGED auxVars

\* The upstream side closes the connection (or the transport is lost).
UpClose ==
    /\ ws = "open"
    /\ ws' = "closed"
    /\ UNCHANGED <<rdrVars, clientOut, mgrVars, svcVars, connected, sessionStarted, recvTask,
                   upVars, fwdVars, histVars>>
    /\ UNCHANGED auxVars

\* ------------------------------------------- E2EDialogClient._receive_loop
\* One iteration: the next frame upstream writes is read, parsed and handed to
\* _handle_response, which keeps the session flag and calls on_response (the
\* service puts the frame on the response queue) or on_error (the error queue).
RecvFrame ==
    /\ recvTask
    /\ ws = "open"
    /\ \E o \in UpAnswers \cup UpStreams :
       LET fr == Frame(o.ev, o.mt, nUp + 1, o.ans) IN
       /\ nUp' = nUp + 1
       /\ upSess' = o.sess
       /\ upRead' = o.read
       /\ nSpont' = o.spont
       /\ sessionStarted' = SessionFlagAfter(fr.ev, sessionStarted)
       /\ responseQueue' = IF Route(fr) = "response" THEN Append(responseQueue, fr)
                           ELSE responseQueue
       /\ errorQueue' = IF Route(fr) = "response" THEN errorQueue
                        ELSE Append(errorQueue, [fatal |-> Route(fr) = "error_fatal", src |-> fr.id])
       /\ sessWindow' = IF fr.ev = EVENT_SESSION_STARTED THEN TRUE
                        ELSE IF fr.ev \in {EVENT_SESSION_FINISHED, EVENT_SESSION_FAILED} THEN FALSE
                        ELSE sessWindow
    /\ UNCHANGED <<rdrVars, clientOut, mgrVars, hasClient, interrupted, ws, connected, recvTask,
                   upSent, fwdVars, freshAfterInt, turnInterrupted, expectSeq, lastStart,
                   lostFrames, turnChats, endedOn>>
    /\ UNCHANGED auxVars

\* A variant of SessionFlagAfterLoopEnd in which the end of the loop clears the
\* connection flag alone.
SessionFlagKeptAfterLoopEnd(cur) == cur

\* _receive_loop, lines 283-294: the handler of ConnectionClosed and the finally
\* clause clear _session_started together with _connected.
SessionFlagAfterLoopEnd(cur) == FALSE

\* The socket is closed: the loop ends and its finally clause runs.
RecvEnd ==
    /\ recvTask
    /\ ws = "closed"
    /\ connected' = FALSE
    /\ sessionStarted' = SessionFlagAfterLoopEnd(sessionStarted)
    /\ recvTask' = FALSE
    /\ sessWindow' = FALSE
    /\ UNCHANGED <<rdrVars, clientOut, mgrVars, svcVars, ws, upVars, fwdVars,
                   freshAfterInt, turnInterrupted, expectSeq, lastStart,
                   lostFrames, turnChats, endedOn>>
    /\ UNCHANGED auxVars

\* --------------------------- the forwarder: E2EConnectionManager._receive_responses
\* driving E2EDialogService.receive_responses

\* The kind of an entry of the error queue, as the envelope's message tells it
ErrorKind(e) == IF e.fatal THEN "fatal" ELSE "nonfatal"

\* A variant of IsFatal in which every error ends the stream.
EveryErrorIsFatal(e) == TRUE

\* _receive_responses, line 201 (and receive_responses, line 229): the error ends the
\* stream and is sent to the client
IsFatal(e) == e.fatal

\* The top of the loop of receive_responses: one entry of the error queue, if there
\* is one, is yielded to the forwarder, which sends a fatal one to the client and
\* returns, and only logs another; then the generator waits on the response queue.
\* fw and out are the forwarder and the client output as the step has left them.
TopOfLoop(f, fw, out) ==
    IF errorQueue = <<>>
    THEN /\ fwd' = [fwd EXCEPT ![f] = [fw EXCEPT !.pc = "wait"]]
         /\ clientOut' = out
         /\ UNCHANGED <<errorQueue, endedOn>>
    ELSE LET e == Head(errorQueue) IN
         /\ errorQueue' = Tail(errorQueue)
         /\ IF IsFatal(e)
            THEN /\ fwd' = [fwd EXCEPT ![f] = [fw EXCEPT !.pc = "done"]]
                 /\ clientOut' = SendToClient(out,
                        Envelope("error", 0, <<ErrorKind(e)>>, "UNKNOWN_ERROR", e.src))
                 /\ endedOn' = endedOn \cup {<<f, ErrorKind(e)>>}
            ELSE /\ fwd' = [fwd EXCEPT ![f] = [fw EXCEPT !.pc = "wait", !.warned = e.src]]
                 /\ clientOut' = out
                 /\ UNCHANGED endedOn

\* The task's first step: _receive_responses up to the first await of the generator.
FwdStart(f) ==
    /\ fwd[f].pc = "created"
    /\ IF e2e_service
       THEN /\ interrupted' = FALSE
            /\ TopOfLoop(f, fwd[f], clientOut)
       ELSE /\ fwd' = [fwd EXCEPT ![f].pc = "done"]
            /\ UNCHANGED <<interrupted, errorQueue, clientOut, endedOn>>
    /\ UNCHANGED <<rdrVars, mgrVars, hasClient, responseQueue, cliVars, upVars, nFwd,
                   sessWindow, freshAfterInt, turnInterrupted, expectSeq, lastStart,
                   lostFrames, turnChats>>
    /\ UNCHANGED auxVars

\* wait_for(self._response_queue.get(), 0.1) takes a response off the queue; the
\* generator resumes in a later step of the loop.
FwdDequeue(f) ==
    /\ fwd[f].pc = "wait"
    /\ responseQueue # <<>>
    /\ fwd' = [fwd EXCEPT ![f].pc = "got", ![f].fr = Head(responseQueue)]
    /\ responseQueue' = Tail(responseQueue)
    /\ UNCHANGED <<rdrVars, clientOut, mgrVars, hasClient, interrupted, errorQueue, cliVars,
                   upVars, nFwd, histVars>>
    /\ UNCHANGED auxVars

\* The wait times out on an empty queue: a lost connection is reported as a fatal
\* error and ends the stream, otherwise the loop goes round.
FwdTimeout(f) ==
    /\ fwd[f].pc = "wait"
    /\ responseQueue = <<>>
    /\ IF ~svc_is_connected
       THEN /\ fwd' = [fwd EXCEPT ![f].pc = "done"]
            /\ clientOut' = SendToClient(clientOut,
                   Envelope("error", 0, <<"fatal">>, "UNKNOWN_ERROR", 0))
            /\ endedOn' = endedOn \cup {<<f, "fatal">>}
            /\ UNCHANGED errorQueue
       ELSE TopOfLoop(f, fwd[f], clientOut)
    /\ UNCHANGED <<rdrVars, mgrVars, hasClient, interrupted, responseQueue, cliVars, upVars,
                   nFwd, sessWindow, freshAfterInt, turnInterrupted, expectSeq, lastStart,
                   lostFrames, turnChats>>
    /\ UNCHANGED auxVars

\* _receive_responses, lines 158-196: the forwarder's local state after a normalized
\* event of type t
ForwardState(t, fw, fr) ==
    IF t = "asr_started" THEN [fw EXCEPT !.tts_seq = 0, !.text = <<>>]
    ELSE IF t = "chat_text" THEN [fw EXCEPT !.text = Append(fw.text, fr.id)]
    ELSE IF t = "tts_chunk" THEN [fw EXCEPT !.tts_seq = fw.tts_seq + 1]
    ELSE IF t = "tts_ended" THEN [fw EXCEPT !.tts_seq = 0, !.text = <<>>]
    ELSE fw

\* _receive_responses, lines 158-196: the client output after a normalized event
ForwardOut(t, fw, fr) ==
    IF t = "asr_result" THEN SendToClient(clientOut, Envelope("asr_result", 0, <<>>, "", fr.id))
    ELSE IF t = "asr_ended" THEN SendToClient(clientOut, Envelope("asr_end", 0, <<>>, "", fr.id))
    ELSE IF t = "chat_text"
         THEN SendToClient(clientOut, Envelope("chat_text", 0, <<fr.id>>, "", fr.id))
    ELSE IF t = "tts_chunk"
         THEN SendToClient(clientOut, Envelope("tts_chunk", fw.tts_seq, <<>>, "", fr.id))
    ELSE IF t = "tts_ended"
         THEN SendToClient(clientOut, Envelope("tts_end", 0, fw.text, "", fr.id))
    ELSE clientOut

\* The generator resumes with the response it took: it drops it when interrupted,
\* else converts it and yields it to the forwarder, which writes the envelope.
\* The loop runs its ready callbacks in the order they became ready, so of two
\* forwarders that hold a response the one that took its response first resumes first.
FwdProcess(f) ==
    /\ fwd[f].pc = "got"
    /\ \A g \in FwdIds : fwd[g].pc = "got" => fwd[f].fr.id <= fwd[g].fr.id
    /\ LET fw == fwd[f]
           fr == fw.fr
           t == IF DropsResponse THEN "dropped" ELSE ConvertResponse(fr)
       IN /\ TopOfLoop(f, [ForwardState(t, fw, fr) EXCEPT !.fr = NoFrame], ForwardOut(t, fw, fr))
          /\ expectSeq' = IF t \in {"asr_started", "tts_ended"} THEN 0
                          ELSE IF t = "tts_chunk" /\ active_connection THEN expectSeq + 1
                          ELSE expectSeq
          /\ turnChats' = IF t \in {"asr_started", "tts_ended"} THEN <<>>
                          ELSE IF t = "chat_text" /\ active_connection
                               THEN Append(turnChats, fr.id)
                          ELSE turnChats
    /\ UNCHANGED <<rdrVars, mgrVars, hasClient, interrupted, responseQueue, cliVars, upVars,
                   nFwd, sessWindow, freshAfterInt, turnInterrupted, lastStart, lostFrames>>
    /\ UNCHANGED auxVars

\* --------------------------------------------------- the endpoint's reader

\* E2EDialogService.close: finish_session and finish_connection are written when the
\* client is connected; a send on a dead socket raises and is swallowed there.
CloseFrames ==
    IF hasClient /\ is_connected /\ ws = "open"
    THEN <<Sent(EVENT_FINISH_SESSION), [ev |-> EVENT_FINISH_CONNECTION, st |-> FALSE]>>
    ELSE <<>>

\* E2EConnectionManager.disconnect: cancel the forwarder task the manager holds,
\* close the service (and with it the client: flags, receive task, socket), drop
\* the connection.  out is the client output when it is called.
DisconnectEffects(out) ==
    /\ clientOut' = out
    /\ fwd' = IF mgr_receive_task # 0 /\ fwd[mgr_receive_task].pc # "done"
              THEN [fwd EXCEPT ![mgr_receive_task] = [@ EXCEPT !.pc = "done", !.fr = NoFrame]]
              ELSE fwd
    /\ mgr_receive_task' = 0
    /\ e2e_service' = FALSE
    /\ active_connection' = FALSE
    /\ hasClient' = FALSE
    /\ upSent' = upSent \o CloseFrames
    /\ connected' = FALSE
    /\ sessionStarted' = FALSE
    /\ recvTask' = FALSE
    /\ ws' = "none"
    /\ sessWindow' = FALSE
    /\ readerPc' = "closed"
    /\ ssSent' = 0
    /\ waited' = 0
    /\ sinceCall' = 0

\* e2e_websocket_endpoint, lines 283-289: an exception out of a handler is reported
\* to the client and the connection is disconnected.
ExceptionPath ==
    DisconnectEffects(SendToClient(clientOut, ErrorEnvelope("UNKNOWN_ERROR", 0)))

\* The client closes its socket: WebSocketDisconnect out of receive_text.
ClientDisconnect ==
    /\ readerPc = "idle"
    /\ DisconnectEffects(clientOut)
    /\ UNCHANGED <<nMsgs, interrupted, responseQueue, errorQueue, upRead, upSess, nSpont,
                   nUp, nFwd, freshAfterInt, turnInterrupted, expectSeq, lastStart,
                   lostFrames, turnChats, endedOn>>
    /\ UNCHANGED auxVars

\* A variant of StartSessionLeavesFlag in which start_session takes the session for
\* started as soon as the frame is written.
StartSessionSetsFlag(cur) == TRUE

\* client.start_session, lines 157-166: StartSession is written and True returned;
\* _session_started keeps its value until the receive task reads the answer.
StartSessionLeavesFlag(cur) == cur

\* A variant of ReceiveTaskAfterConnect in which the receive task is created as soon
\* as the socket is open, before StartConnection is sent.
ReceiveTaskBeforeHandshake(outcome) == outcome # "refused"

\* client.connect, lines 106-125: the receive task is created after the socket was
\* opened and StartConnection was sent; an exception of either skips it.
ReceiveTaskAfterConnect(outcome) == outcome = "ok"

\* start_session: start_e2e_session up to the wait inside service.start_session.
\* outcome is what the upstream handshake of a new client does: "ok", "refused"
\* (websockets.connect raises) or "send_failed" (the StartConnection send raises).
HandleStartSession(outcome) ==
    /\ readerPc = "idle"
    /\ nMsgs < MaxMsgs
    /\ nFwd < MaxFwd
    /\ e2e_service
    /\ nMsgs' = nMsgs + 1
    /\ IF svc_is_connected
       THEN \* service.connect returns True at once; client.start_session
            /\ outcome = "ok"
            /\ IF sessionStarted
               THEN /\ readerPc' = "ss_wait"
                    /\ ssSent' = 0
                    /\ waited' = 0
                    /\ sinceCall' = 0
                    /\ UNCHANGED <<clientOut, mgrVars, svcVars, cliVars, upSent, fwd, sessWindow>>
               ELSE IF ws = "open"
               THEN /\ upSent' = Append(upSent, Sent(EVENT_START_SESSION))
                    /\ sessionStarted' = StartSessionLeavesFlag(sessionStarted)
                    /\ readerPc' = "ss_wait"
                    /\ ssSent' = Len(upSent) + 1
                    /\ waited' = 0
                    /\ sinceCall' = 0
                    /\ UNCHANGED <<clientOut, mgrVars, svcVars, ws, connected, recvTask, fwd,
                                   sessWindow>>
               ELSE /\ ExceptionPath
                    /\ UNCHANGED <<interrupted, responseQueue, errorQueue>>
            /\ UNCHANGED <<upRead, upSess, nSpont, nUp>>
       ELSE \* service.connect: fresh queues, a new client, client.connect
            /\ hasClient' = TRUE
            /\ responseQueue' = <<>>
            /\ sessionStarted' = FALSE
            /\ sessWindow' = FALSE
            /\ UNCHANGED <<mgrVars, interrupted, fwd, nUp, nSpont>>
            /\ \/ /\ outcome = "ok"
                  /\ ws' = "open"
                  /\ connected' = TRUE
                  /\ recvTask' = ReceiveTaskAfterConnect(outcome)
                  /\ errorQueue' = <<>>
                  /\ upSent' = <<[ev |-> EVENT_START_CONNECTION, st |-> FALSE],
                                 [ev |-> EVENT_START_SESSION, st |-> FALSE]>>
                  /\ upRead' = 0
                  /\ upSess' = FALSE
                  /\ readerPc' = "ss_wait"
                  /\ ssSent' = 2
                  /\ waited' = 0
                  /\ sinceCall' = 0
                  /\ UNCHANGED clientOut
               \/ /\ outcome = "refused"
                  /\ ws' = "none"
                  /\ connected' = FALSE
                  /\ recvTask' = ReceiveTaskAfterConnect(outcome)
                  /\ errorQueue' = <<[fatal |-> TRUE, src |-> 0]>>
                  /\ clientOut' = SendToClient(clientOut, ErrorEnvelope("NETWORK_ERROR", 0))
                  /\ UNCHANGED <<readerPc, ssSent, waited, sinceCall, upVars>>
               \/ /\ outcome = "send_failed"
                  /\ ws' = "closed"
                  /\ connected' = TRUE
                  /\ recvTask' = ReceiveTaskAfterConnect(outcome)
                  /\ errorQueue' = <<[fatal |-> TRUE, src |-> 0]>>
                  /\ clientOut' = SendToClient(clientOut, ErrorEnvelope("NETWORK_ERROR", 0))
                  /\ upSent' = <<>>
                  /\ upRead' = 0
                  /\ upSess' = FALSE
                  /\ UNCHANGED <<readerPc, ssSent, waited, sinceCall, nUp>>
    /\ UNCHANGED <<nFwd, freshAfterInt, turnInterrupted, expectSeq, lastStart,
                   lostFrames, turnChats, endedOn>>
    /\ UNCHANGED auxVars

\* service.start_session, lines 144-150: the wait takes a frame off the response
\* queue; a SESSION_STARTED ends it and start_e2e_session creates the forwarder task
\* and writes session_started, any other frame is discarded and the wait starts anew.
WaiterDequeue ==
    /\ readerPc = "ss_wait"
    /\ responseQueue # <<>>
    /\ responseQueue' = Tail(responseQueue)
    /\ LET fr == Head(responseQueue) IN
       IF IsSessionStartedFrame(fr)
       THEN /\ nFwd' = nFwd + 1
            /\ fwd' = [fwd EXCEPT ![nFwd + 1] = [NoForwarder EXCEPT !.pc = "created"]]
            /\ mgr_receive_task' = nFwd + 1
            /\ clientOut' = SendToClient(clientOut, Envelope("session_started", 0, <<>>, "", fr.id))
            /\ readerPc' = "idle"
            /\ ssSent' = 0
            /\ waited' = 0
            /\ sinceCall' = 0
            /\ lastStart' = [ev |-> fr.ev, ans |-> fr.ans, call |-> ssSent]
            /\ turnInterrupted' = FALSE
            /\ expectSeq' = 0
            /\ turnChats' = <<>>
            /\ UNCHANGED lostFrames
       ELSE /\ waited' = 0
            /\ lostFrames' = IF ConvertResponse(fr) \in EnvelopeTypes
                              THEN lostFrames \cup {fr.id} ELSE lostFrames
            /\ UNCHANGED <<nFwd, fwd, mgr_receive_task, clientOut, readerPc, ssSent, sinceCall,
                           lastStart, turnInterrupted, expectSeq, turnChats>>
    /\ UNCHANGED <<nMsgs, active_connection, e2e_service, hasClient, interrupted, errorQueue,
                   cliVars, upVars, sessWindow, freshAfterInt, endedOn>>
    /\ UNCHANGED auxVars

\* service.start_session, lines 151-153: the running wait_for has waited its ten
\* seconds on an empty queue.
WaiterTimeout ==
    /\ readerPc = "ss_wait"
    /\ responseQueue = <<>>
    /\ waited = StartSessionTimeout
    /\ clientOut' = SendToClient(clientOut, ErrorEnvelope("NETWORK_ERROR", 0))
    /\ readerPc' = "idle"
    /\ ssSent' = 0
    /\ waited' = 0
    /\ sinceCall' = 0
    /\ UNCHANGED <<nMsgs, mgrVars, svcVars, cliVars, upVars, fwdVars, histVars>>
    /\ UNCHANGED auxVars

\* Time passes while the wait is blocked on the empty queue.
Tick ==
    /\ readerPc = "ss_wait"
    /\ responseQueue = <<>>
    /\ waited < StartSessionTimeout
    /\ sinceCall < MaxClock
    /\ waited' = Min(waited + TickSeconds, StartSessionTimeout)
    /\ sinceCall' = Min(sinceCall + (waited' - waited), MaxClock)
    /\ UNCHANGED <<nMsgs, readerPc, ssSent, clientOut, mgrVars, svcVars, cliVars, upVars,
                   fwdVars, histVars>>
    /\ UNCHANGED auxVars

\* A variant of RequestPassesGuards in which neither guard looks at the session.
RequestPassesConnectionGuards == hasClient /\ is_connected

\* service.send_audio / send_text / say_hello with the client method behind them:
\* the frame is written only past the guard of the service (a client, its session
\* started) and the guards of the client (connected, _session_started).
RequestPassesGuards ==
    /\ hasClient /\ is_session_started
    /\ is_connected /\ sessionStarted

\* audio_data: service.send_audio swallows what client.send_audio raises.
HandleAudio ==
    /\ readerPc = "idle"
    /\ nMsgs < MaxMsgs
    /\ e2e_service
    /\ nMsgs' = nMsgs + 1
    /\ IF RequestPassesGuards /\ ws = "open"
       THEN /\ upSent' = Append(upSent, Sent(EVENT_TASK_REQUEST))
            /\ turnInterrupted' = FALSE
            /\ freshAfterInt' = TRUE
       ELSE UNCHANGED <<upSent, turnInterrupted, freshAfterInt>>
    /\ UNCHANGED <<readerPc, ssSent, waited, sinceCall, clientOut, mgrVars, svcVars, cliVars,
                   upRead, upSess, nSpont, nUp, fwdVars, sessWindow, expectSeq,
                   lastStart, lostFrames, turnChats, endedOn>>
    /\ UNCHANGED auxVars

\* text_query (e = CHAT_TEXT_QUERY) and say_hello (e = SAY_HELLO): an exception of
\* the send reaches the endpoint.
HandleRequest(e) ==
    /\ readerPc = "idle"
    /\ nMsgs < MaxMsgs
    /\ e2e_service
    /\ nMsgs' = nMsgs + 1
    /\ IF ~RequestPassesGuards
       THEN UNCHANGED <<readerPc, ssSent, waited, sinceCall, clientOut, mgrVars, hasClient,
                        cliVars, upSent, fwd, sessWindow, turnInterrupted, freshAfterInt>>
       ELSE IF ws = "open"
       THEN /\ upSent' = Append(upSent, Sent(e))
            /\ turnInterrupted' = FALSE
            /\ freshAfterInt' = TRUE
            /\ UNCHANGED <<readerPc, ssSent, waited, sinceCall, clientOut, mgrVars, hasClient,
                           cliVars, fwd, sessWindow>>
       ELSE /\ ExceptionPath
            /\ UNCHANGED <<turnInterrupted, freshAfterInt>>
    /\ UNCHANGED <<interrupted, responseQueue, errorQueue, upRead, upSess, nSpont, nUp,
                   nFwd, expectSeq, lastStart, lostFrames, turnChats, endedOn>>
    /\ UNCHANGED auxVars

HandleText == HandleRequest(EVENT_CHAT_TEXT_QUERY)

HandleHello == HandleRequest(EVENT_SAY_HELLO)

\* A variant of Interrupt in which a second call takes the first one back.
InterruptToggles(flag) == ~flag

\* service.interrupt, lines 200-204: _interrupted after the call, whatever it was
\* (_is_ai_responding, which it clears too, is read nowhere).
Interrupt(flag) == TRUE

\* interrupt: service.interrupt, then a tts_end with empty full_text.
HandleInterrupt ==
    /\ readerPc = "idle"
    /\ nMsgs < MaxMsgs
    /\ e2e_service
    /\ nMsgs' = nMsgs + 1
    /\ freshAfterInt' = FALSE
    /\ interrupted' = Interrupt(interrupted)
    /\ clientOut' = SendToClient(clientOut, Envelope("tts_end", 0, <<>>, "", 0))
    /\ turnInterrupted' = TRUE
    /\ expectSeq' = 0
    /\ turnChats' = <<>>
    /\ UNCHANGED <<readerPc, ssSent, waited, sinceCall, mgrVars, hasClient, responseQueue,
                   errorQueue, cliVars, upVars, fwdVars, sessWindow, lastStart, lostFrames,
                   endedOn>>
    /\ UNCHANGED auxVars

\* finish_session: client.finish_session writes FINISH_SESSION and clears the flag.
HandleFinish ==
    /\ readerPc = "idle"
    /\ nMsgs < MaxMsgs
    /\ e2e_service
    /\ nMsgs' = nMsgs + 1
    /\ IF ~(hasClient /\ is_connected)
       THEN /\ sessWindow' = FALSE
            /\ UNCHANGED <<readerPc, ssSent, waited, sinceCall, clientOut, mgrVars, hasClient,
                           cliVars, upSent, fwd>>
       ELSE IF ws = "open"
       THEN /\ upSent' = Append(upSent, Sent(EVENT_FINISH_SESSION))
            /\ sessionStarted' = FALSE
            /\ sessWindow' = FALSE
            /\ UNCHANGED <<readerPc, ssSent, waited, sinceCall, clientOut, mgrVars, hasClient,
                           ws, connected, recvTask, fwd>>
       ELSE ExceptionPath
    /\ UNCHANGED <<interrupted, responseQueue, errorQueue, upRead, upSess, nSpont, nUp,
                   nFwd, freshAfterInt, turnInterrupted, expectSeq, lastStart,
                   lostFrames, turnChats, endedOn>>
    /\ UNCHANGED auxVars

\* ---------------------------------------------------------------- Next
Next ==
    \/ \E o \in {"ok", "refused", "send_failed"} : HandleStartSession(o)
    \/ WaiterDequeue
    \/ WaiterTimeout
    \/ Tick
    \/ HandleAudio
    \/ HandleText
    \/ HandleHello
    \/ HandleInterrupt
    \/ HandleFinish
    \/ ClientDisconnect
    \/ UpAbsorb
    \/ UpClose
    \/ RecvFrame
    \/ RecvEnd
    \/ \E f \in FwdIds : FwdStart(f)
    \/ \E f \in FwdIds : FwdDequeue(f)
    \/ \E f \in FwdIds : FwdTimeout(f)
    \/ \E f \in FwdIds : FwdProcess(f)

Spec == Init /\ [][Next]_vars

\* ------------------------------------------- text frames the endpoints cannot use
\* Both endpoints read a text frame, json.loads it and hand the result to their
\* message handler; only json.JSONDecodeError is caught inside the loop.

\* What json.JSONDecodeError says (str(e)), in words
DecodeErrors ==
    {<<"Expecting", "value">>, <<"Extra", "data">>, <<"Invalid", "control", "character">>}

\* s contains p as a run of consecutive words
Contains(s, p) == \E i \in 1..(Len(s) - Len(p) + 1) : SubSeq(s, i, i + Len(p) - 1) = p

\* e2e_websocket_endpoint, line 279: the message of the error envelope.  The two
\* words around JSON stand for the Chinese text of the f-string ("invalid" before
\* it, "format" after it).
E2EInvalidJsonMessage(detail) == <<"wuxiaode", "JSON", "geshi", ":">> \o detail

\* websocket_endpoint, line 167: f"Invalid JSON: {e}"
ASRInvalidJsonMessage(detail) == <<"Invalid", "JSON", ":">> \o detail

\* e2e endpoint: the frame is not JSON.
E2EInvalidJson(detail) ==
    /\ readerPc = "idle"
    /\ nMsgs < MaxMsgs
    /\ nMsgs' = nMsgs + 1
    /\ clientOut' = SendToClient(clientOut,
           Envelope("error", 0, E2EInvalidJsonMessage(detail), "UNKNOWN_ERROR", 0))
    /\ UNCHANGED <<readerPc, ssSent, waited, sinceCall, mgrVars, svcVars, cliVars, upVars,
                   fwdVars, histVars, auxVars>>

\* What the e2e endpoint leaves alone when an exception ends its loop
E2ECrashFrame ==
    UNCHANGED <<interrupted, responseQueue, errorQueue, upRead, upSess, nSpont, nUp, nFwd,
                freshAfterInt, turnInterrupted, expectSeq, lastStart,
                lostFrames, turnChats, endedOn,
                auxVars>>

\* e2e endpoint: the frame is JSON but not an object (a list, a string, a number):
\* message.get raises AttributeError in handle_e2e_message, which reaches the
\* endpoint's generic handler.
E2ENotAnObject ==
    /\ readerPc = "idle"
    /\ nMsgs < MaxMsgs
    /\ nMsgs' = nMsgs + 1
    /\ ExceptionPath
    /\ E2ECrashFrame

\* The message types whose handler reads fields of data
E2EDataReaders == {"start_session", "audio_data", "text_query", "say_hello"}

\* e2e endpoint: an envelope of type t whose data is not an object (a string, a
\* list, null): data.get raises AttributeError.
E2EBadData(t) ==
    /\ t \in E2EDataReaders
    /\ readerPc = "idle"
    /\ nMsgs < MaxMsgs
    /\ nMsgs' = nMsgs + 1
    /\ ExceptionPath
    /\ E2ECrashFrame

\* e2e endpoint: an envelope of a type the handler does not know.
E2EUnknownType ==
    /\ readerPc = "idle"
    /\ nMsgs < MaxMsgs
    /\ nMsgs' = nMsgs + 1
    /\ clientOut' = SendToClient(clientOut,
           Envelope("error", 0, <<"unknown", "message", "type">>, "UNKNOWN_ERROR", 0))
    /\ UNCHANGED <<readerPc, ssSent, waited, sinceCall, mgrVars, svcVars, cliVars, upVars,
                   fwdVars, histVars, auxVars>>

\* ConnectionManager.send_error of the ASR endpoint
ASRSendError(code, msg) ==
    IF asr_connection THEN Append(asrOut, [type |-> "error", code |-> code, message |-> msg])
    ELSE asrOut

gatewayVars == <<rdrVars, clientOut, mgrVars, svcVars, cliVars, upVars, fwdVars, histVars>>

\* ASR endpoint: the frame is not JSON.
ASRInvalidJson(detail) ==
    /\ asr_connection
    /\ asrMsgs < MaxMsgs
    /\ asrMsgs' = asrMsgs + 1
    /\ asrOut' = ASRSendError("UNKNOWN_ERROR", ASRInvalidJsonMessage(detail))
    /\ UNCHANGED <<asr_connection, gatewayVars, shutVars, twoVars, codecVars, splitVars, ctxVars, convVars, dispatchVars, streamVars>>

\* ASR endpoint: the frame is JSON but not an object: message.get raises
\* AttributeError in handle_message; the generic handler reports it and disconnects.
ASRNotAnObject ==
    /\ asr_connection
    /\ asrMsgs < MaxMsgs
    /\ asrMsgs' = asrMsgs + 1
    /\ asrOut' = ASRSendError("UNKNOWN_ERROR", <<"AttributeError">>)
    /\ asr_connection' = FALSE
    /\ UNCHANGED <<gatewayVars, shutVars, twoVars, codecVars, splitVars, ctxVars, convVars, dispatchVars, streamVars>>

\* ASR endpoint: audio_data whose data is not an object (handle_audio_data checks it).
ASRBadData ==
    /\ asr_connection
    /\ asrMsgs < MaxMsgs
    /\ asrMsgs' = asrMsgs + 1
    /\ asrOut' = ASRSendError("ASR_ERROR", <<"Invalid", "audio", "data", "format">>)
    /\ UNCHANGED <<asr_connection, gatewayVars, shutVars, twoVars, codecVars, splitVars, ctxVars, convVars, dispatchVars, streamVars>>

\* ASR endpoint: an envelope of a type the handler does not know.
ASRUnknownType ==
    /\ asr_connection
    /\ asrMsgs < MaxMsgs
    /\ asrMsgs' = asrMsgs + 1
    /\ asrOut' = ASRSendError("UNKNOWN_ERROR", <<"Unknown", "message", "type">>)
    /\ UNCHANGED <<asr_connection, gatewayVars, shutVars, twoVars, codecVars, splitVars, ctxVars, convVars, dispatchVars, streamVars>>

\* ASR endpoint: interrupt is accepted and does nothing.
ASRInterrupt ==
    /\ asr_connection
    /\ asrMsgs < MaxMsgs
    /\ asrMsgs' = asrMsgs + 1
    /\ UNCHANGED <<asr_connection, asrOut, gatewayVars, shutVars, twoVars, codecVars, splitVars, ctxVars, convVars, dispatchVars, streamVars>>

\* The two endpoints under text frames of every shape, with the e2e messages that
\* need no upstream (interrupt, finish_session, audio_data) as the well-formed ones.
NextEndpoint ==
    \/ \E d \in DecodeErrors : E2EInvalidJson(d)
    \/ E2ENotAnObject
    \/ \E t \in E2EDataReaders : E2EBadData(t)
    \/ E2EUnknownType
    \/ HandleInterrupt
    \/ HandleFinish
    \/ HandleAudio
    \/ \E d \in DecodeErrors : ASRInvalidJson(d)
    \/ ASRNotAnObject
    \/ ASRBadData
    \/ ASRUnknownType
    \/ ASRInterrupt

SpecEndpoint == Init /\ [][NextEndpoint]_vars

\* ------------------------------------------------- disconnect(), step by step
\* E2EConnectionManager.disconnect with E2EDialogService.close and
\* E2EDialogClient.close behind it, cut at the awaits where the reader is suspended:
\* the wait for the cancelled forwarder, the sends of close(), the wait for the
\* cancelled receive task.  Task.cancel() only asks: the task ends when the loop
\* runs it next, and until then the other tasks go on.

\* disconnect, lines 48-49: cancel() on the forwarder task the manager holds
DisconnectCancelForwarder ==
    /\ readerPc = "idle"
    /\ readerPc' = "disc_forwarder"
    /\ fwdCancel' = IF mgr_receive_task # 0 /\ fwd[mgr_receive_task].pc # "done"
                    THEN fwdCancel \cup {mgr_receive_task}
                    ELSE fwdCancel
    /\ UNCHANGED <<nMsgs, ssSent, waited, sinceCall, clientOut, mgrVars, svcVars, cliVars,
                   upVars, fwdVars, histVars, asrVars, twoVars, codecVars, splitVars, ctxVars, convVars, dispatchVars, streamVars, recvCancel>>

\* _receive_responses, lines 208-209: the cancelled forwarder is run with
\* CancelledError at its await (or before its first step) and ends.
ForwarderCancelled(f) ==
    /\ f \in fwdCancel
    /\ fwd' = [fwd EXCEPT ![f] = [@ EXCEPT !.pc = "done", !.fr = NoFrame]]
    /\ fwdCancel' = fwdCancel \ {f}
    /\ UNCHANGED <<rdrVars, clientOut, mgrVars, svcVars, cliVars, upVars, nFwd, histVars,
                   asrVars, twoVars, codecVars, splitVars, ctxVars, convVars, dispatchVars, streamVars, recvCancel>>

\* disconnect, lines 50-54: the await of the held forwarder task returns
HeldForwarderDone ==
    IF mgr_receive_task = 0 THEN TRUE ELSE fwd[mgr_receive_task].pc = "done"

\* disconnect, lines 50-57, and service.close, lines 381-386: the wait for the
\* forwarder is over, then finish_session and finish_connection are sent.
DisconnectCloseService ==
    /\ readerPc = "disc_forwarder"
    /\ HeldForwarderDone
    /\ readerPc' = "disc_client"
    /\ mgr_receive_task' = 0
    /\ upSent' = upSent \o CloseFrames
    /\ sessionStarted' = IF CloseFrames # <<>> THEN FALSE ELSE sessionStarted
    /\ sessWindow' = IF CloseFrames # <<>> THEN FALSE ELSE sessWindow
    /\ UNCHANGED <<nMsgs, ssSent, waited, sinceCall, clientOut, active_connection, e2e_service,
                   svcVars, ws, connected, recvTask, upRead, upSess, nSpont, nUp, fwdVars,
                   freshAfterInt, turnInterrupted, expectSeq, lastStart,
                   lostFrames, turnChats, endedOn,
                   auxVars>>

\* client.close, lines 355-359: the flags are cleared and cancel() is called on the
\* receive task, if the client has one.
ClientCloseCancelReceive ==
    /\ readerPc = "disc_client"
    /\ readerPc' = "disc_receive"
    /\ connected' = IF hasClient THEN FALSE ELSE connected
    /\ sessionStarted' = IF hasClient THEN FALSE ELSE sessionStarted
    /\ sessWindow' = IF hasClient THEN FALSE ELSE sessWindow
    /\ recvCancel' = (hasClient /\ recvTask)
    /\ UNCHANGED <<nMsgs, ssSent, waited, sinceCall, clientOut, mgrVars, svcVars, ws, recvTask,
                   upVars, fwdVars, freshAfterInt, turnInterrupted, expectSeq, lastStart,
                   lostFrames, turnChats, endedOn, asrVars, twoVars, codecVars, splitVars, ctxVars, convVars, dispatchVars, streamVars, fwdCancel>>

\* _receive_loop, lines 287-292: the cancelled receive task is run with
\* CancelledError at its read and ends through its finally clause.
ReceiveTaskCancelled ==
    /\ recvCancel
    /\ recvTask
    /\ recvTask' = FALSE
    /\ recvCancel' = FALSE
    /\ connected' = FALSE
    /\ sessionStarted' = FALSE
    /\ sessWindow' = FALSE
    /\ UNCHANGED <<rdrVars, clientOut, mgrVars, svcVars, ws, upVars, fwdVars, freshAfterInt,
                   turnInterrupted, expectSeq, lastStart, lostFrames, turnChats, endedOn, asrVars,
                   twoVars, codecVars, splitVars, ctxVars, convVars, dispatchVars, streamVars, fwdCancel>>

\* client.close, lines 360-371, service.close, line 387, disconnect, lines 58-60:
\* the wait for the receive task is over, the socket is closed, the client, the
\* service and the connection are dropped.
DisconnectCloseSocket ==
    /\ readerPc = "disc_receive"
    /\ ~recvCancel
    /\ readerPc' = "closed"
    /\ ws' = "none"
    /\ hasClient' = FALSE
    /\ e2e_service' = FALSE
    /\ active_connection' = FALSE
    /\ UNCHANGED <<nMsgs, ssSent, waited, sinceCall, clientOut, mgr_receive_task, interrupted,
                   responseQueue, errorQueue, connected, sessionStarted, recvTask, upVars,
                   fwdVars, histVars, auxVars>>

\* A task cancel() was called on takes no other step than its end.
NextShutdown ==
    \/ HandleStartSession("ok")
    \/ WaiterDequeue
    \/ HandleFinish
    \/ UpAbsorb
    \/ ~recvCancel /\ RecvFrame
    \/ \E f \in FwdIds \ fwdCancel : FwdStart(f)
    \/ \E f \in FwdIds \ fwdCancel : FwdDequeue(f)
    \/ \E f \in FwdIds \ fwdCancel : FwdTimeout(f)
    \/ \E f \in FwdIds \ fwdCancel : FwdProcess(f)
    \/ DisconnectCancelForwarder
    \/ \E f \in FwdIds : ForwarderCancelled(f)
    \/ DisconnectCloseService
    \/ ClientCloseCancelReceive
    \/ ReceiveTaskCancelled
    \/ DisconnectCloseSocket

SpecShutdown == Init /\ [][NextShutdown]_vars

\* ------------------------------------- two connections on the e2e endpoint
\* e2e_manager (e2e_websocket.py, line 215) is one object of the module: every
\* call of e2e_websocket_endpoint, one per client connection, works on it.  Each
\* connection has its own reader task; the manager's fields are shared.  connect()
\* makes a new E2EDialogService, numbered here by the connection whose connect()
\* made it.  The handshake of start_session, modelled frame by frame above, is one
\* step here with upstream answering SessionStarted.

Conns == 1..MaxConns

\* An E2EDialogService with its client: the session runs, the connection whose
\* start_session started it, close() was called (and by which connection), a
\* forwarder iterates its receive_responses(), the responses upstream has sent.
NoService == [started |-> FALSE, owner |-> 0, closed |-> FALSE, closedBy |-> 0,
              fwd |-> FALSE, frames |-> 0]

\* send_message on the shared manager: the envelope goes to active_connection
SharedSend(out, env) ==
    IF shared_active_connection = 0 THEN out
    ELSE [out EXCEPT ![shared_active_connection] = Append(@, env)]

\* An envelope: its type, the service whose upstream session it comes from and the
\* connection that started that session (0 for an envelope that comes from none)
SharedEnvelope(t, s, c) == [type |-> t, svc |-> s, owner |-> c]

\* e2e_websocket_endpoint, line 269: E2EConnectionManager.connect
TwoConnect(c) ==
    /\ conn_pc[c] = "none"
    /\ conn_pc' = [conn_pc EXCEPT ![c] = "idle"]
    /\ shared_active_connection' = c
    /\ shared_e2e_service' = c
    /\ UNCHANGED <<shared_receive_task, services, conn_out, wire, send_on, conn_msgs>>
    /\ UNCHANGED <<gatewayVars, asrVars, shutVars, codecVars, splitVars, ctxVars, convVars, dispatchVars, streamVars>>

\* start_session read by the reader of connection c: start_e2e_session on the
\* service the manager holds now.
TwoStartSession(c) ==
    /\ conn_pc[c] = "idle"
    /\ conn_msgs[c] < MaxMsgs
    /\ conn_msgs' = [conn_msgs EXCEPT ![c] = @ + 1]
    /\ LET s == shared_e2e_service IN
       IF s = 0
       THEN /\ conn_out' = SharedSend(conn_out, SharedEnvelope("error", 0, 0))
            /\ UNCHANGED <<shared_receive_task, services, wire>>
       ELSE IF services[s].started \/ services[s].closed
       THEN \* no SessionStarted comes: the wait times out
            /\ conn_out' = SharedSend(conn_out, SharedEnvelope("error", 0, 0))
            /\ UNCHANGED <<shared_receive_task, services, wire>>
       ELSE /\ services' = [services EXCEPT ![s] = [@ EXCEPT !.started = TRUE, !.owner = c,
                                                              !.fwd = TRUE]]
            /\ wire' = [wire EXCEPT ![s] = @ \o <<[ev |-> EVENT_START_CONNECTION, by |-> c],
                                                   [ev |-> EVENT_START_SESSION, by |-> c]>>]
            /\ shared_receive_task' = s
            /\ conn_out' = SharedSend(conn_out, SharedEnvelope("session_started", s, c))
    /\ UNCHANGED <<conn_pc, shared_active_connection, shared_e2e_service, send_on>>
    /\ UNCHANGED <<gatewayVars, asrVars, shutVars, codecVars, splitVars, ctxVars, convVars, dispatchVars, streamVars>>

\* Upstream sends a chat response in the session of service s; the forwarder made
\* for s takes it from the queue and calls send_chat_text.
TwoForward(s) ==
    /\ services[s].fwd
    /\ ~services[s].closed
    /\ services[s].frames < MaxUp
    /\ services' = [services EXCEPT ![s].frames = @ + 1]
    /\ conn_out' = SharedSend(conn_out, SharedEnvelope("chat_text", s, services[s].owner))
    /\ UNCHANGED <<conn_pc, shared_active_connection, shared_e2e_service, shared_receive_task,
                   wire, send_on, conn_msgs>>
    /\ UNCHANGED <<gatewayVars, asrVars, shutVars, codecVars, splitVars, ctxVars, convVars, dispatchVars, streamVars>>

\* audio_data read by the reader of connection c: past the guards the frame is
\* written and the reader is suspended in ws.send until the transport has taken it.
TwoSendAudio(c) ==
    /\ conn_pc[c] = "idle"
    /\ conn_msgs[c] < MaxMsgs
    /\ conn_msgs' = [conn_msgs EXCEPT ![c] = @ + 1]
    /\ LET s == shared_e2e_service IN
       IF s # 0 /\ services[s].started /\ ~services[s].closed
       THEN /\ wire' = [wire EXCEPT ![s] = Append(@, [ev |-> EVENT_TASK_REQUEST, by |-> c])]
            /\ send_on' = [send_on EXCEPT ![c] = s]
            /\ conn_pc' = [conn_pc EXCEPT ![c] = "sending"]
       ELSE UNCHANGED <<wire, send_on, conn_pc>>
    /\ UNCHANGED <<shared_active_connection, shared_e2e_service, shared_receive_task, services,
                   conn_out>>
    /\ UNCHANGED <<gatewayVars, asrVars, shutVars, codecVars, splitVars, ctxVars, convVars, dispatchVars, streamVars>>

\* ws.send returns to the reader of connection c.
TwoSendReturns(c) ==
    /\ conn_pc[c] = "sending"
    /\ conn_pc' = [conn_pc EXCEPT ![c] = "idle"]
    /\ send_on' = [send_on EXCEPT ![c] = 0]
    /\ UNCHANGED <<shared_active_connection, shared_e2e_service, shared_receive_task, services,
                   conn_out, wire, conn_msgs>>
    /\ UNCHANGED <<gatewayVars, asrVars, shutVars, codecVars, splitVars, ctxVars, convVars, dispatchVars, streamVars>>

\* The services after disconnect(): the forwarder the manager holds is cancelled,
\* the service it holds is closed.
ServicesAfterDisconnect(c) ==
    [s \in Conns |->
        LET a == IF s = shared_receive_task THEN [services[s] EXCEPT !.fwd = FALSE]
                 ELSE services[s]
        IN IF s = shared_e2e_service
           THEN [a EXCEPT !.started = FALSE, !.closed = TRUE, !.closedBy = c]
           ELSE a]

\* The client of connection c closes its socket: E2EConnectionManager.disconnect
TwoDisconnect(c) ==
    /\ conn_pc[c] = "idle"
    /\ conn_pc' = [conn_pc EXCEPT ![c] = "closed"]
    /\ services' = ServicesAfterDisconnect(c)
    /\ wire' = IF shared_e2e_service # 0 /\ services[shared_e2e_service].started
               THEN [wire EXCEPT ![shared_e2e_service] =
                        @ \o <<[ev |-> EVENT_FINISH_SESSION, by |-> c],
                               [ev |-> EVENT_FINISH_CONNECTION, by |-> c]>>]
               ELSE wire
    /\ shared_receive_task' = 0
    /\ shared_e2e_service' = 0
    /\ shared_active_connection' = 0
    /\ UNCHANGED <<conn_out, send_on, conn_msgs>>
    /\ UNCHANGED <<gatewayVars, asrVars, shutVars, codecVars, splitVars, ctxVars, convVars, dispatchVars, streamVars>>

NextTwoClients ==
    \/ \E c \in Conns : TwoConnect(c)
    \/ \E c \in Conns : TwoStartSession(c)
    \/ \E s \in Conns : TwoForward(s)
    \/ \E c \in Conns : TwoSendAudio(c)
    \/ \E c \in Conns : TwoSendReturns(c)
    \/ \E c \in Conns : TwoDisconnect(c)

SpecTwoClients == Init /\ [][NextTwoClients]_vars

\* ------------------------------------------------------- the frame codecs
\* services/e2e/protocol.py (the e2e dialogue protocol) and utils/protocol.py (the
\* staged ASR protocol).  Bytes are numbers 0..255, a frame is a sequence of bytes.

\* --- constants of services/e2e/protocol.py
PROTOCOL_VERSION == 1
DEFAULT_HEADER_SIZE == 1
CLIENT_FULL_REQUEST == 1
CLIENT_AUDIO_ONLY_REQUEST == 2
SERVER_FULL_RESPONSE == 9
SERVER_ACK == 11
SERVER_ERROR_RESPONSE == 15
NEG_SEQUENCE == 2
MSG_WITH_EVENT == 4
NO_SERIALIZATION == 0
JSON_SERIALIZATION == 1
GZIP_COMPRESSION == 1
SessionLevel == 100

\* --- constants of utils/protocol.py
HEADER_SIZE == 1
MsgType == [FULL_CLIENT_REQUEST |-> 1, AUDIO_ONLY_REQUEST |-> 2, FULL_SERVER_RESPONSE |-> 9,
            SERVER_ACK |-> 11, ERROR |-> 15]
MsgTypeFlag == [NO_SEQ |-> 0, POSITIVE_SEQ |-> 1, NEGATIVE_SEQ |-> 2, NEGATIVE_SEQ_LAST |-> 3]
SerializationType == [RAW |-> 0, JSON |-> 1]
CompressionType == [NO_COMPRESSION |-> 0, GZIP |-> 1]

\* The largest value of struct's format "i"; the smallest is -MaxInt32 - 1
MaxInt32 == 2147483647

\* --- bytes
\* s[a:b] of Python (0-based, b exclusive, both clamped to the length)
Slice(s, a, b) == SubSeq(s, Min(a, Len(s)) + 1, Min(b, Len(s)))

\* s[a:]
From(s, a) == SubSeq(s, Min(a, Len(s)) + 1, Len(s))

\* n.to_bytes(4, 'big') and struct.pack(">I", n), for 0 <= n < 2^32
ToBytes4(n) == <<(n \div 16777216) % 256, (n \div 65536) % 256, (n \div 256) % 256, n % 256>>

\* struct.pack(">i", v) for v in the range of the format (outside it the call raises
\* struct.error): two's complement, big endian.  v + 2^32 of a negative v is
\* (v + 2^31) with the top bit set.
PackInt32(v) ==
    IF v >= 0 THEN ToBytes4(v)
    ELSE LET low == ToBytes4(v + MaxInt32 + 1) IN <<low[1] + 128, low[2], low[3], low[4]>>

RECURSIVE FromBytes(_)
\* int.from_bytes(b, "big", signed=False); b may be shorter than 4 bytes
FromBytes(b) ==
    IF b = <<>> THEN 0 ELSE FromBytes(SubSeq(b, 1, Len(b) - 1)) * 256 + b[Len(b)]

\* int.from_bytes(b, "big", signed=True) and struct.unpack(">i", b) of 4 bytes
FromBytesSigned(b) ==
    IF Len(b) = 4 /\ b[1] >= 128
    THEN FromBytes(<<b[1] - 128, b[2], b[3], b[4]>>) - MaxInt32 - 1
    ELSE FromBytes(b)

\* gzip.compress: the member's magic number, the data, and the size of the data in
\* the trailer (the deflate coding of the data and the checksum are left out)
Gzip(b) == <<31, 139>> \o b \o <<Len(b) % 256>>

\* gzip.decompress raises on bytes that are no gzip member
IsGzip(z) ==
    /\ Len(z) >= 3
    /\ z[1] = 31
    /\ z[2] = 139
    /\ z[Len(z)] = (Len(z) - 3) % 256

Gunzip(z) == SubSeq(z, 3, Len(z) - 1)

\* json.dumps(payload).encode("utf-8") of a dict: braces around its content
JsonDumps(p) == <<123>> \o p \o <<125>>

\* json.loads raises on bytes that are no JSON text
IsJson(b) == Len(b) >= 2 /\ b[1] = 123 /\ b[Len(b)] = 125

JsonLoads(b) == SubSeq(b, 2, Len(b) - 1)

\* --- services/e2e/protocol.py
generate_header(message_type, message_type_specific_flags, serial_method, compression_type) ==
    <<PROTOCOL_VERSION * 16 + DEFAULT_HEADER_SIZE,
      message_type * 16 + message_type_specific_flags,
      serial_method * 16 + compression_type,
      0>>

\* build_event_frame, lines 128-130: the session id of a session-level event
SessionSegment(event_id, session_id) ==
    IF event_id >= SessionLevel THEN ToBytes4(Len(session_id)) \o session_id ELSE <<>>

build_event_frame(event_id, session_id, payload, message_type) ==
    generate_header(message_type, MSG_WITH_EVENT, JSON_SERIALIZATION, GZIP_COMPRESSION)
    \o ToBytes4(event_id)
    \o SessionSegment(event_id, session_id)
    \o ToBytes4(Len(Gzip(JsonDumps(payload))))
    \o Gzip(JsonDumps(payload))

build_audio_frame(event_id, session_id, audio_data) ==
    generate_header(CLIENT_AUDIO_ONLY_REQUEST, MSG_WITH_EVENT, NO_SERIALIZATION,
                    GZIP_COMPRESSION)
    \o ToBytes4(event_id)
    \o ToBytes4(Len(session_id)) \o session_id
    \o ToBytes4(Len(Gzip(audio_data)))
    \o Gzip(audio_data)

\* What parse_response returns: a dict, here with a flag for each key it may hold.
\* payload_kind is "none" (payload_msg is None), "json" (a decoded document) or
\* "bytes".
EmptyResult ==
    [message_type |-> "", has_seq |-> FALSE, seq |-> 0, has_event |-> FALSE, event |-> 0,
     has_session_id |-> FALSE, session_id |-> <<>>, has_code |-> FALSE, code |-> 0,
     payload_kind |-> "none", payload_msg |-> <<>>]

\* parse_response, lines 257-273: decompression and deserialization of payload_msg;
\* an exception leaves payload_msg as it was when it was raised.
DecodePayload(r, msg, serialization_method, message_compression) ==
    IF msg = <<>> THEN [r EXCEPT !.payload_kind = "bytes", !.payload_msg = msg]
    ELSE IF message_compression = GZIP_COMPRESSION /\ ~IsGzip(msg)
    THEN [r EXCEPT !.payload_kind = "bytes", !.payload_msg = msg]
    ELSE LET raw == IF message_compression = GZIP_COMPRESSION THEN Gunzip(msg) ELSE msg IN
         IF serialization_method = JSON_SERIALIZATION /\ IsJson(raw)
         THEN [r EXCEPT !.payload_kind = "json", !.payload_msg = JsonLoads(raw)]
         ELSE [r EXCEPT !.payload_kind = "bytes", !.payload_msg = raw]

\* parse_response, lines 229-235: the session id is taken when the four bytes at the
\* cursor are a positive size that fits
SessionIdFits(p) ==
    /\ Len(p) >= 4
    /\ FromBytesSigned(Slice(p, 0, 4)) > 0
    /\ Len(p) >= 4 + FromBytesSigned(Slice(p, 0, 4))

parse_response(res) ==
    IF Len(res) < 4 THEN EmptyResult
    ELSE
    LET header_size == res[1] % 16
        message_type == res[2] \div 16
        flags == res[2] % 16
        serialization_method == res[3] \div 16
        message_compression == res[3] % 16
        payload == From(res, header_size * 4)
    IN
    IF message_type \in {SERVER_FULL_RESPONSE, SERVER_ACK}
    THEN LET has_seq == (flags \div NEG_SEQUENCE) % 2 = 1
             has_event == (flags \div MSG_WITH_EVENT) % 2 = 1
             start == (IF has_seq THEN 4 ELSE 0) + (IF has_event THEN 4 ELSE 0)
             p1 == From(payload, start)
             sid_size == FromBytesSigned(Slice(p1, 0, 4))
             p2 == IF SessionIdFits(p1) THEN From(p1, 4 + sid_size) ELSE p1
             r == [EmptyResult EXCEPT
                     !.message_type = IF message_type = SERVER_FULL_RESPONSE
                                      THEN "SERVER_FULL_RESPONSE" ELSE "SERVER_ACK",
                     !.has_seq = has_seq,
                     !.seq = IF has_seq THEN FromBytes(Slice(payload, 0, 4)) ELSE 0,
                     !.has_event = has_event,
                     !.event = IF has_event THEN FromBytes(Slice(payload, 0, 4)) ELSE 0,
                     !.has_session_id = SessionIdFits(p1),
                     !.session_id = IF SessionIdFits(p1) THEN Slice(p1, 4, 4 + sid_size)
                                    ELSE <<>>]
         IN IF Len(p2) >= 4
            THEN DecodePayload(r, From(p2, 4), serialization_method, message_compression)
            ELSE r
    ELSE IF message_type = SERVER_ERROR_RESPONSE
    THEN LET r == [EmptyResult EXCEPT
                     !.message_type = "SERVER_ERROR",
                     !.has_code = Len(payload) >= 4,
                     !.code = IF Len(payload) >= 4 THEN FromBytes(Slice(payload, 0, 4)) ELSE 0]
         IN IF Len(payload) >= 8
            THEN DecodePayload(r, From(payload, 8), serialization_method, message_compression)
            ELSE r
    ELSE EmptyResult

\* --- utils/protocol.py
build_header(message_type, flags, serialization, compression) ==
    <<PROTOCOL_VERSION * 16 + HEADER_SIZE, message_type * 16 + flags,
      serialization * 16 + compression, 0>>

build_full_client_request(payload, use_compression) ==
    LET payload_bytes == IF use_compression THEN Gzip(JsonDumps(payload))
                         ELSE JsonDumps(payload)
        compression == IF use_compression THEN CompressionType.GZIP
                       ELSE CompressionType.NO_COMPRESSION
    IN build_header(MsgType.FULL_CLIENT_REQUEST, MsgTypeFlag.NO_SEQ, SerializationType.JSON,
                    compression)
       \o ToBytes4(Len(payload_bytes)) \o payload_bytes

\* build_audio_only_request, line 113
SeqValue(seq, is_last) == IF is_last THEN -seq ELSE seq

\* build_audio_only_request; empty audio data is not compressed
build_audio_only_request(audio_data, seq, is_last, use_compression) ==
    LET zip == use_compression /\ Len(audio_data) > 0
        data == IF zip THEN Gzip(audio_data) ELSE audio_data
        compression == IF zip THEN CompressionType.GZIP ELSE CompressionType.NO_COMPRESSION
        flags == IF is_last THEN MsgTypeFlag.NEGATIVE_SEQ_LAST ELSE MsgTypeFlag.POSITIVE_SEQ
    IN build_header(MsgType.AUDIO_ONLY_REQUEST, flags, SerializationType.RAW, compression)
       \o PackInt32(SeqValue(seq, is_last))
       \o ToBytes4(Len(data)) \o data

\* What utils parse_response returns: None, an error dict (parse_error_response) or
\* the result extracted from the decoded document (extract_asr_result, of which
\* only the document it is given is kept here).
UtilsNone == [kind |-> "None", code |-> 0, doc |-> <<>>]

parse_error_response(data) ==
    IF Len(data) < 12 THEN UtilsNone
    ELSE LET cursor == IF (data[2] % 16) % 2 = 1 THEN 8 ELSE 4
         IN [kind |-> "error", code |-> FromBytesSigned(Slice(data, cursor, cursor + 4)),
             doc |-> <<>>]

utils_parse_response(data) ==
    IF Len(data) < 8 THEN UtilsNone
    ELSE LET msg_type == (data[2] \div 16) % 16
             compression == data[3] % 16
             payload_size == FromBytes(Slice(data, 4, 8))
             payload_bytes == Slice(data, 8, 8 + payload_size)
         IN IF msg_type = MsgType.ERROR THEN parse_error_response(data)
            ELSE IF msg_type # MsgType.FULL_SERVER_RESPONSE THEN UtilsNone
            ELSE IF Len(data) < 8 + payload_size THEN UtilsNone
            ELSE IF compression = CompressionType.GZIP /\ ~IsGzip(payload_bytes) THEN UtilsNone
            ELSE LET raw == IF compression = CompressionType.GZIP THEN Gunzip(payload_bytes)
                            ELSE payload_bytes
                 IN IF IsJson(raw) THEN [kind |-> "asr", code |-> 0, doc |-> JsonLoads(raw)]
                    ELSE UtilsNone

\* --- the calls made on the codecs
EventIdInputs ==
    {EVENT_START_CONNECTION, EVENT_CONNECTION_STARTED, EVENT_START_SESSION, EVENT_TASK_REQUEST}
SessionIdInputs == {<<>>, <<65>>, <<65, 66>>}
PayloadInputs == {<<>>, <<7>>}
AudioInputs == {<<>>, <<0, 1>>}
MessageTypeInputs == {CLIENT_FULL_REQUEST, SERVER_FULL_RESPONSE}
SeqInputs == {-1, 0, 1, 5, MaxInt32}

NoCall ==
    [kind |-> "none", event_id |-> 0, session_id |-> <<>>, payload |-> <<>>, seq |-> 0,
     is_last |-> FALSE, message_type |-> 0, use_compression |-> FALSE, frame |-> <<>>]

NoParse == [parser |-> "none", e2e |-> EmptyResult, utils |-> UtilsNone]

CallBuildEventFrame(e, sid, p, mt) ==
    /\ codec_call' = [NoCall EXCEPT !.kind = "build_event_frame", !.event_id = e,
                                    !.session_id = sid, !.payload = p, !.message_type = mt,
                                    !.frame = build_event_frame(e, sid, p, mt)]
    /\ codec_result' = NoParse
    /\ UNCHANGED <<gatewayVars, asrVars, shutVars, twoVars, splitVars, ctxVars, convVars, dispatchVars, streamVars>>

CallBuildAudioFrame(e, sid, a) ==
    /\ codec_call' = [NoCall EXCEPT !.kind = "build_audio_frame", !.event_id = e,
                                    !.session_id = sid, !.payload = a,
                                    !.message_type = CLIENT_AUDIO_ONLY_REQUEST,
                                    !.frame = build_audio_frame(e, sid, a)]
    /\ codec_result' = NoParse
    /\ UNCHANGED <<gatewayVars, asrVars, shutVars, twoVars, splitVars, ctxVars, convVars, dispatchVars, streamVars>>

CallBuildFullClientRequest(p, c) ==
    /\ codec_call' = [NoCall EXCEPT !.kind = "build_full_client_request", !.payload = p,
                                    !.use_compression = c,
                                    !.message_type = MsgType.FULL_CLIENT_REQUEST,
                                    !.frame = build_full_client_request(p, c)]
    /\ codec_result' = NoParse
    /\ UNCHANGED <<gatewayVars, asrVars, shutVars, twoVars, splitVars, ctxVars, convVars, dispatchVars, streamVars>>

CallBuildAudioOnlyRequest(a, n, last, c) ==
    /\ codec_call' = [NoCall EXCEPT !.kind = "build_audio_only_request", !.payload = a,
                                    !.seq = n, !.is_last = last, !.use_compression = c,
                                    !.message_type = MsgType.AUDIO_ONLY_REQUEST,
                                    !.frame = build_audio_only_request(a, n, last, c)]
    /\ codec_result' = NoParse
    /\ UNCHANGED <<gatewayVars, asrVars, shutVars, twoVars, splitVars, ctxVars, convVars, dispatchVars, streamVars>>

\* The built frame is parsed by the parse operation of the module that built it.
CallParseResponse ==
    /\ codec_call.kind \in {"build_event_frame", "build_audio_frame"}
    /\ codec_result = NoParse
    /\ codec_result' = [NoParse EXCEPT !.parser = "e2e", !.e2e = parse_response(codec_call.frame)]
    /\ UNCHANGED <<codec_call, gatewayVars, asrVars, shutVars, twoVars, splitVars, ctxVars, convVars, dispatchVars, streamVars>>

CallUtilsParseResponse ==
    /\ codec_call.kind \in {"build_full_client_request", "build_audio_only_request"}
    /\ codec_result = NoParse
    /\ codec_result' = [NoParse EXCEPT !.parser = "utils",
                                       !.utils = utils_parse_response(codec_call.frame)]
    /\ UNCHANGED <<codec_call, gatewayVars, asrVars, shutVars, twoVars, splitVars, ctxVars, convVars, dispatchVars, streamVars>>

NextCodec ==
    \/ \E e \in EventIdInputs, sid \in SessionIdInputs, p \in PayloadInputs,
          mt \in MessageTypeInputs : CallBuildEventFrame(e, sid, p, mt)
    \/ \E e \in EventIdInputs, sid \in SessionIdInputs, a \in AudioInputs :
          CallBuildAudioFrame(e, sid, a)
    \/ \E p \in PayloadInputs, c \in BOOLEAN : CallBuildFullClientRequest(p, c)
    \/ \E a \in AudioInputs, n \in SeqInputs, last \in BOOLEAN, c \in BOOLEAN :
          CallBuildAudioOnlyRequest(a, n, last, c)
    \/ CallParseResponse
    \/ CallUtilsParseResponse

SpecCodec == Init /\ [][NextCodec]_vars

\* ------------------------------------------------------------ TextSplitter
\* services/text_splitter.py.  A text is a sequence of Unicode code points.

\* bounds of the splitter's inputs
MaxFeeds == 4
LongChunkLen == 26

\* SENTENCE_ENDINGS: the full-width full stop, exclamation mark, question mark and
\* semicolon, the ellipsis, and . ! ? ;
SENTENCE_ENDINGS == {12290, 65281, 65311, 65307, 8230, 46, 33, 63, 59}

\* COMMA_MARKS: the full-width comma and the comma
COMMA_MARKS == {65292, 44}

MAX_SENTENCE_LENGTH == 50
MIN_SENTENCE_LENGTH == 2

\* Code points str.strip() removes, of those the inputs use: space, line feed and
\* the ideographic space
Whitespace == {32, 10, 12288}

RECURSIVE LStrip(_)
LStrip(s) == IF s # <<>> /\ Head(s) \in Whitespace THEN LStrip(Tail(s)) ELSE s

RECURSIVE RStrip(_)
RStrip(s) ==
    IF s # <<>> /\ s[Len(s)] \in Whitespace THEN RStrip(SubSeq(s, 1, Len(s) - 1)) ELSE s

\* str.strip()
Strip(s) == RStrip(LStrip(s))

\* A variant of RestOfBuffer that drops the character after the cut as well.
RestOfBufferSkipping(buf, cut) == From(buf, cut + 2)

\* _try_extract_sentence, lines 71 and 78: self.buffer = self.buffer[cut + 1:]
RestOfBuffer(buf, cut) == From(buf, cut + 1)

NoSentence(buf) == [found |-> FALSE, sentence |-> <<>>, buffer |-> buf]

RECURSIVE ScanFrom(_, _, _)
\* _try_extract_sentence: the loop from index i (0-based) on, with last_comma_pos as
\* the iterations before have left it; the result is the sentence returned (found) and
\* the buffer the call leaves.
ScanFrom(buf, i, last_comma_pos) ==
    IF i >= Len(buf) THEN NoSentence(buf)
    ELSE LET char == buf[i + 1]
             comma == IF char \in COMMA_MARKS THEN i ELSE last_comma_pos
             atEnding == Strip(Slice(buf, 0, i + 1))
             atComma == Strip(Slice(buf, 0, comma + 1))
         IN IF char \in SENTENCE_ENDINGS /\ Len(atEnding) >= MIN_SENTENCE_LENGTH
            THEN [found |-> TRUE, sentence |-> atEnding, buffer |-> RestOfBuffer(buf, i)]
            ELSE IF i >= MAX_SENTENCE_LENGTH /\ comma > 0
                    /\ Len(atComma) >= MIN_SENTENCE_LENGTH
            THEN [found |-> TRUE, sentence |-> atComma, buffer |-> RestOfBuffer(buf, comma)]
            ELSE ScanFrom(buf, i + 1, comma)

_try_extract_sentence(buf) == ScanFrom(buf, 0, -1)

RECURSIVE FeedLoop(_, _)
\* feed, lines 39-44: sentences are extracted and yielded until none is found
FeedLoop(buf, sentences) ==
    LET r == _try_extract_sentence(buf) IN
    IF r.found /\ r.sentence # <<>> THEN FeedLoop(r.buffer, Append(sentences, r.sentence))
    ELSE [sentences |-> sentences, buffer |-> r.buffer]

\* The chunks fed: single characters (a letter, a space, a full stop, a full-width
\* full stop, a comma), a piece with inner and outer spaces, and a long piece with a
\* comma and no sentence ending, two of which pass MAX_SENTENCE_LENGTH.
LongChunk == [i \in 1..LongChunkLen |-> IF i = 13 THEN 44 ELSE 97]
Chunks == {<<97>>, <<32>>, <<46>>, <<12290>>, <<44>>, <<32, 98, 32, 99, 46, 32>>, LongChunk}

othersOfSplitter == <<gatewayVars, asrVars, shutVars, twoVars, codecVars, ctxVars, convVars, dispatchVars, streamVars>>

\* feed(text), iterated to its end as stream_processor does
Feed(text) ==
    /\ nFeeds < MaxFeeds
    /\ LET r == FeedLoop(buffer \o text, <<>>) IN
       /\ buffer' = r.buffer
       /\ yielded' = yielded \o r.sentences
    /\ fedText' = fedText \o text
    /\ nFeeds' = nFeeds + 1
    /\ lastCall' = "feed"
    /\ UNCHANGED othersOfSplitter

\* flush()
Flush ==
    /\ lastCall = "feed"
    /\ IF Strip(buffer) # <<>>
       THEN /\ yielded' = Append(yielded, Strip(buffer))
            /\ buffer' = <<>>
       ELSE UNCHANGED <<yielded, buffer>>
    /\ lastCall' = "flush"
    /\ UNCHANGED <<fedText, nFeeds>>
    /\ UNCHANGED othersOfSplitter

NextSplitter ==
    \/ \E text \in Chunks : Feed(text)
    \/ Flush

SpecSplitter == Init /\ [][NextSplitter]_vars

\* ---------------------------------------------------------- ContextManager
\* services/context_manager.py.  Of a message the code reads the role and the length
\* of the content; chars_per_token is a ratio <<numerator, denominator>> (the default
\* 1.5 is <<3, 2>>).

\* bounds of the context manager's inputs
MaxAdds == 6
MaxContent == 6

\* The configurations tried: small token caps, as the tests of the repository use
Configs ==
    [max_tokens : {4, 10}, chars_per_token : {<<1, 1>>, <<3, 2>>}, min_history_count : {1, 2}]

\* The state before a ContextManager is constructed
NoConfig == [max_tokens |-> 0, chars_per_token |-> <<1, 1>>, min_history_count |-> 0]

Contents == {1, MaxContent}

RECURSIVE TotalChars(_)
\* estimate_tokens: sum(len(m.content) for m in self.messages)
TotalChars(msgs) == IF msgs = <<>> THEN 0 ELSE Head(msgs).content + TotalChars(Tail(msgs))

\* estimate_tokens: int(total_chars / chars_per_token)
estimate_tokens(msgs, cfg) ==
    (TotalChars(msgs) * cfg.chars_per_token[2]) \div cfg.chars_per_token[1]

\* _trim_if_needed, lines 60-62: the oldest message is removed, and the message after
\* it when that is an assistant's
PopOldestRound(msgs) ==
    LET rest == Tail(msgs) IN
    IF rest # <<>> /\ Head(rest).role = "assistant" THEN Tail(rest) ELSE rest

RECURSIVE _trim_if_needed(_, _)
_trim_if_needed(msgs, cfg) ==
    IF estimate_tokens(msgs, cfg) > cfg.max_tokens /\ Len(msgs) > cfg.min_history_count * 2
    THEN _trim_if_needed(PopOldestRound(msgs), cfg)
    ELSE msgs

othersOfContext == <<gatewayVars, asrVars, shutVars, twoVars, codecVars, splitVars, convVars, dispatchVars, streamVars>>

\* ContextManager(config=cfg)
NewContextManager(cfg) ==
    /\ config = NoConfig
    /\ config' = cfg
    /\ messages' = <<>>
    /\ UNCHANGED nAdds
    /\ UNCHANGED othersOfContext

add_user_message(content) ==
    /\ config # NoConfig
    /\ nAdds < MaxAdds
    /\ messages' = _trim_if_needed(Append(messages, [role |-> "user", content |-> content]),
                                   config)
    /\ nAdds' = nAdds + 1
    /\ UNCHANGED config
    /\ UNCHANGED othersOfContext

add_assistant_message(content) ==
    /\ config # NoConfig
    /\ nAdds < MaxAdds
    /\ messages' = _trim_if_needed(Append(messages, [role |-> "assistant", content |-> content]),
                                   config)
    /\ nAdds' = nAdds + 1
    /\ UNCHANGED config
    /\ UNCHANGED othersOfContext

NextContext ==
    \/ \E cfg \in Configs : NewContextManager(cfg)
    \/ \E content \in Contents : add_user_message(content)
    \/ \E content \in Contents : add_assistant_message(content)

SpecContext == Init /\ [][NextContext]_vars

\* ------------------------------------------- EmotionParser, ConversationService
\* services/emotion_parser.py, services/conversation_service.py and the part of
\* services/stream_processor.py between them.  Texts are sequences of code points.

\* bounds of the conversation's inputs
MaxTurns == 2
MaxPieces == 2

\* The four emotions, by the member names of models/message.py EmotionType
EMOTION_DEFAULT == <<40664, 35748, 38506, 20276>>
EMOTION_EMPATHY == <<20849, 24773, 20542, 21548>>
EMOTION_COMFORT == <<23433, 24944, 25903, 25345>>
EMOTION_HAPPY == <<36731, 26494, 24841, 24742>>

VALID_EMOTIONS == {EMOTION_DEFAULT, EMOTION_EMPATHY, EMOTION_COMFORT, EMOTION_HAPPY}
DEFAULT_EMOTION == EMOTION_DEFAULT

\* The tags of CONTENT_PATTERN and EMOTION_PATTERN
OPEN_CONTENT == <<60, 99, 111, 110, 116, 101, 110, 116, 62>>
CLOSE_CONTENT == <<60, 47, 99, 111, 110, 116, 101, 110, 116, 62>>
OPEN_EMOTION == <<60, 101, 109, 111, 116, 105, 111, 110, 62>>
CLOSE_EMOTION == <<60, 47, 101, 109, 111, 116, 105, 111, 110, 62>>

RECURSIVE Find(_, _, _)
\* The first index (0-based) at or after from at which pat stands in s, -1 if none
Find(s, pat, from) ==
    IF from + Len(pat) > Len(s) THEN -1
    ELSE IF Slice(s, from, from + Len(pat)) = pat THEN from
    ELSE Find(s, pat, from + 1)

\* re.compile(open + "(.*?)" + close, re.DOTALL).search(raw): the leftmost opening
\* tag and the first closing tag after it; group is group(1)
Search(raw, open, close) ==
    LET a == Find(raw, open, 0)
        b == IF a < 0 THEN -1 ELSE Find(raw, close, a + Len(open))
    IN [found |-> b >= 0,
        start |-> a,
        group |-> IF b >= 0 THEN Slice(raw, a + Len(open), b) ELSE <<>>,
        end |-> b + Len(close)]

RECURSIVE Sub(_, _, _)
\* re.compile(open + "(.*?)" + close, re.DOTALL).sub("", raw)
Sub(raw, open, close) ==
    LET m == Search(raw, open, close) IN
    IF m.found THEN Slice(raw, 0, m.start) \o Sub(From(raw, m.end), open, close) ELSE raw

_extract_content(raw) ==
    LET m == Search(raw, OPEN_CONTENT, CLOSE_CONTENT)
        fallback == Strip(Sub(raw, OPEN_EMOTION, CLOSE_EMOTION))
    IN IF m.found THEN Strip(m.group)
       ELSE IF fallback # <<>> THEN fallback
       ELSE Strip(raw)

\* A variant of ValidOrDefault that returns the text of the tag as it is.
ValidOrNot(emotion) == emotion

\* _extract_emotion, lines 65-69: a text outside VALID_EMOTIONS falls back
ValidOrDefault(emotion) == IF emotion \in VALID_EMOTIONS THEN emotion ELSE DEFAULT_EMOTION

_extract_emotion(raw) ==
    LET m == Search(raw, OPEN_EMOTION, CLOSE_EMOTION) IN
    IF m.found THEN ValidOrDefault(Strip(m.group)) ELSE DEFAULT_EMOTION

\* EmotionParser.parse
parse(raw_response) ==
    [content |-> _extract_content(raw_response),
     emotion |-> _extract_emotion(raw_response),
     is_valid |-> _extract_content(raw_response) # <<>>]

RECURSIVE RemoveContentTags(_)
\* _clean_text_for_tts: re.sub(r"</?content>", "", text)
RemoveContentTags(s) ==
    IF s = <<>> THEN <<>>
    ELSE IF Slice(s, 0, Len(OPEN_CONTENT)) = OPEN_CONTENT
    THEN RemoveContentTags(From(s, Len(OPEN_CONTENT)))
    ELSE IF Slice(s, 0, Len(CLOSE_CONTENT)) = CLOSE_CONTENT
    THEN RemoveContentTags(From(s, Len(CLOSE_CONTENT)))
    ELSE <<Head(s)>> \o RemoveContentTags(Tail(s))

RECURSIVE RemoveTags(_)
\* _clean_text_for_tts: re.sub(r"<[^>]+>", "", text): a "<" up to the first ">" after
\* it, with at least one character between
RemoveTags(s) ==
    IF s = <<>> THEN <<>>
    ELSE IF Head(s) = 60 /\ Find(s, <<62>>, 1) >= 2
    THEN RemoveTags(From(s, Find(s, <<62>>, 1) + 1))
    ELSE <<Head(s)>> \o RemoveTags(Tail(s))

_clean_text_for_tts(text) ==
    Strip(RemoveTags(Sub(RemoveContentTags(text), OPEN_EMOTION, CLOSE_EMOTION)))

RECURSIVE StreamSentences(_, _, _)
\* StreamProcessor.process, lines 66-106: the chunks are fed to the splitter one by
\* one and the rest is flushed; the result is the sentences in order
StreamSentences(chunks, buf, sentences) ==
    IF chunks = <<>>
    THEN IF Strip(buf) # <<>> THEN Append(sentences, Strip(buf)) ELSE sentences
    ELSE LET r == FeedLoop(buf \o Head(chunks), <<>>) IN
         StreamSentences(Tail(chunks), r.buffer, sentences \o r.sentences)

RECURSIVE CleanAll(_)
\* The texts of the TTSChunks process yields: the cleaned sentences that are not empty
CleanAll(sentences) ==
    IF sentences = <<>> THEN <<>>
    ELSE IF _clean_text_for_tts(Head(sentences)) # <<>>
    THEN <<_clean_text_for_tts(Head(sentences))>> \o CleanAll(Tail(sentences))
    ELSE CleanAll(Tail(sentences))

RECURSIVE Join(_)
\* The texts of a sequence, joined
Join(ss) == IF ss = <<>> THEN <<>> ELSE Head(ss) \o Join(Tail(ss))

\* The pieces the responses of the LLM are made of: a content block, an emotion
\* block, an opening emotion tag with a word that is no emotion, one with a valid
\* emotion within whitespace, the closing emotion tag, and a word alone
Pieces ==
    {OPEN_CONTENT \o <<21992, 12290>> \o CLOSE_CONTENT,
     OPEN_EMOTION \o EMOTION_HAPPY \o CLOSE_EMOTION,
     OPEN_EMOTION \o <<24320, 24515>>,
     OPEN_EMOTION \o <<32>> \o EMOTION_EMPATHY \o <<10>>,
     CLOSE_EMOTION,
     <<24320, 24515>>}

RECURSIVE Responses(_)
\* The responses of at most n pieces
Responses(n) ==
    IF n = 0 THEN {<<>>}
    ELSE Responses(n - 1) \cup {Append(r, p) : r \in Responses(n - 1), p \in Pieces}

UserTexts == {1}

othersOfConversation == <<gatewayVars, asrVars, shutVars, twoVars, codecVars, splitVars, dispatchVars, streamVars>>

\* ConversationService(config): its ContextManager gets config.context_config
NewConversationService(cfg) ==
    /\ config = NoConfig
    /\ config' = cfg
    /\ messages' = <<>>
    /\ current_emotion' = DEFAULT_EMOTION
    /\ UNCHANGED <<nAdds, llm_chunks, llm_response, nTurns>>
    /\ UNCHANGED othersOfConversation

\* process_user_input: chat_non_stream returns the parsed response of the LLM
process_user_input(user_text, chunks) ==
    /\ config # NoConfig
    /\ nTurns < MaxTurns
    /\ LET response == parse(Join(chunks))
           asked == _trim_if_needed(
                        Append(messages, [role |-> "user", content |-> user_text]), config)
       IN /\ llm_response' = response
          /\ current_emotion' = IF response.emotion # current_emotion THEN response.emotion
                                ELSE current_emotion
          /\ messages' = _trim_if_needed(
                            Append(asked, [role |-> "assistant",
                                           content |-> Len(response.content)]), config)
    /\ llm_chunks' = chunks
    /\ nAdds' = nAdds + 2
    /\ nTurns' = nTurns + 1
    /\ UNCHANGED config
    /\ UNCHANGED othersOfConversation

\* process_user_input_stream, iterated to its end: StreamProcessor.process yields the
\* cleaned sentences, then parses the whole response and calls handle_emotion
process_user_input_stream(user_text, chunks) ==
    /\ config # NoConfig
    /\ nTurns < MaxTurns
    /\ LET full_response == Join(chunks)
           full_text == Join(CleanAll(StreamSentences(chunks, <<>>, <<>>)))
           asked == _trim_if_needed(
                        Append(messages, [role |-> "user", content |-> user_text]), config)
       IN /\ IF full_response # <<>>
             THEN /\ llm_response' = parse(full_response)
                  /\ current_emotion' =
                        IF parse(full_response).emotion # current_emotion
                        THEN parse(full_response).emotion ELSE current_emotion
             ELSE UNCHANGED <<llm_response, current_emotion>>
          /\ IF full_text # <<>>
             THEN /\ messages' = _trim_if_needed(
                        Append(asked, [role |-> "assistant", content |-> Len(full_text)]),
                        config)
                  /\ nAdds' = nAdds + 2
             ELSE /\ messages' = asked
                  /\ nAdds' = nAdds + 1
    /\ llm_chunks' = chunks
    /\ nTurns' = nTurns + 1
    /\ UNCHANGED config
    /\ UNCHANGED othersOfConversation

\* ConversationService.reset
ConversationReset ==
    /\ config # NoConfig
    /\ nTurns > 0
    /\ messages' = <<>>
    /\ current_emotion' = DEFAULT_EMOTION
    /\ UNCHANGED <<config, nAdds, llm_chunks, llm_response, nTurns>>
    /\ UNCHANGED othersOfConversation

NextConversation ==
    \/ \E cfg \in Configs : NewConversationService(cfg)
    \/ \E u \in UserTexts, chunks \in Responses(MaxPieces) : process_user_input(u, chunks)
    \/ \E u \in UserTexts, chunks \in Responses(MaxPieces) : process_user_input_stream(u, chunks)
    \/ ConversationReset

SpecConversation == Init /\ [][NextConversation]_vars

\* ------------------------------------------- the client's dispatch to its callbacks
\* E2EDialogClient._receive_loop and _handle_response (services/e2e/client.py), with
\* the callbacks recorded as they are called.

\* bound of the frames dispatched
MaxFrames == 2

\* The events parsed responses carry: the events of the protocol, an event the
\* gateway does not know, and 0 for a response with no event
ParsedEvents ==
    {0, 999, EVENT_CONNECTION_STARTED, EVENT_SESSION_STARTED, EVENT_SESSION_FINISHED,
     EVENT_SESSION_FAILED, EVENT_TTS_SENTENCE_START, EVENT_TTS_RESPONSE, EVENT_TTS_ENDED,
     EVENT_ASR_INFO, EVENT_ASR_RESPONSE, EVENT_ASR_ENDED, EVENT_CHAT_RESPONSE,
     EVENT_CHAT_ENDED, EVENT_DIALOG_COMMON_ERROR}

\* The message types parse_response gives a response that is not empty
ParsedMessageTypes == {"SERVER_FULL_RESPONSE", "SERVER_ACK", "SERVER_ERROR"}

othersOfDispatch ==
    <<asrVars, shutVars, twoVars, codecVars, splitVars, ctxVars, convVars, streamVars>>

\* _handle_response for a response that is not empty: the session flag is kept and one
\* callback is called.
HandleResponse(fr) ==
    /\ sessionStarted' = SessionFlagAfter(fr.ev, sessionStarted)
    /\ on_response_calls' = IF Route(fr) = "response" THEN Append(on_response_calls, fr)
                            ELSE on_response_calls
    /\ on_error_calls' = IF Route(fr) = "response" THEN on_error_calls
                         ELSE Append(on_error_calls,
                                     [fr |-> fr, fatal |-> Route(fr) = "error_fatal"])

\* _receive_loop, lines 276-279: parse_response gave an empty dict (a frame of
\* another message type); _handle_response is not called.
ReceiveEmpty ==
    /\ Len(received) < MaxFrames
    /\ received' = Append(received, NoFrame)
    /\ raw_frames' = Append(raw_frames, <<>>)
    /\ UNCHANGED <<on_response_calls, on_error_calls>>
    /\ UNCHANGED <<gatewayVars, othersOfDispatch>>

\* _receive_loop and _handle_response for a response that is not empty.
ReceiveParsed(e, m) ==
    /\ Len(received) < MaxFrames
    /\ received' = Append(received, Frame(e, m, Len(received) + 1, 0))
    /\ raw_frames' = Append(raw_frames, <<>>)
    /\ HandleResponse(Frame(e, m, Len(received) + 1, 0))
    /\ UNCHANGED <<rdrVars, clientOut, mgrVars, svcVars, ws, connected, recvTask, upVars,
                   fwdVars, histVars>>
    /\ UNCHANGED othersOfDispatch

\* Frames shorter than a header
TooShortFrames == {<<>>, <<17, 148, 17>>}

\* Frames whose message type is none of the three parse_response knows
UnknownTypeFrames ==
    {build_event_frame(EVENT_SESSION_FAILED, <<65>>, <<7>>, CLIENT_FULL_REQUEST),
     build_audio_frame(EVENT_TTS_RESPONSE, <<65>>, <<0, 1>>)}

\* A frame of the server with the session id "A" whose payload is the bytes given
ServerFrame(e, payload_bytes) ==
    generate_header(SERVER_FULL_RESPONSE, MSG_WITH_EVENT, JSON_SERIALIZATION, GZIP_COMPRESSION)
    \o ToBytes4(e) \o ToBytes4(1) \o <<65>> \o ToBytes4(Len(payload_bytes)) \o payload_bytes

\* The events of the raw frames
RawEvents == {EVENT_SESSION_STARTED, EVENT_SESSION_FAILED, EVENT_CHAT_RESPONSE}

\* Frames of the server whose payload is no gzip member, or a gzip member of bytes
\* that are no JSON text
BadPayloadFrames ==
    {ServerFrame(e, <<9, 9, 9>>) : e \in RawEvents} \cup {ServerFrame(e, Gzip(<<9>>)) : e \in RawEvents}

\* Frames of the server that are well formed
GoodFrames == {ServerFrame(e, Gzip(JsonDumps(<<7>>))) : e \in RawEvents}

RawFrames == TooShortFrames \cup UnknownTypeFrames \cup BadPayloadFrames \cup GoodFrames

\* The response parse_response returned, as the dispatch reads it: nothing for an
\* empty dict, else its event (None when the frame has none) and message type
ParsedFrame(b, i) ==
    LET r == parse_response(b) IN
    IF r = EmptyResult THEN NoFrame
    ELSE Frame(IF r.has_event THEN r.event ELSE 0, r.message_type, i, 0)

\* _receive_loop, lines 275-279, for a binary message: parse_response, and
\* _handle_response when the result is not empty.
ReceiveRaw(b) ==
    /\ Len(received) < MaxFrames
    /\ received' = Append(received, ParsedFrame(b, Len(received) + 1))
    /\ raw_frames' = Append(raw_frames, b)
    /\ IF ParsedFrame(b, Len(received) + 1) = NoFrame
       THEN UNCHANGED <<sessionStarted, on_response_calls, on_error_calls>>
       ELSE HandleResponse(ParsedFrame(b, Len(received) + 1))
    /\ UNCHANGED <<rdrVars, clientOut, mgrVars, svcVars, ws, connected, recvTask, upVars,
                   fwdVars, histVars>>
    /\ UNCHANGED othersOfDispatch

NextDispatch ==
    \/ ReceiveEmpty
    \/ \E e \in ParsedEvents, m \in ParsedMessageTypes : ReceiveParsed(e, m)
    \/ \E b \in RawFrames : ReceiveRaw(b)

SpecDispatch == Init /\ [][NextDispatch]_vars

\* ------------------------------------------------------ a streamed turn
\* ConversationService.process_user_input_stream (services/conversation_service.py)
\* around StreamProcessor.process (services/stream_processor.py), one step per
\* suspension: the next chunk of chat_stream, the next sentence of feed, the return of
\* synthesize.  A yield and the resumption after it are one step.

\* bounds of the streamed turns and of the chunks of a response
MaxStreams == 2
MaxStreamChunks == 2

\* The chunks chat_stream gives: a sentence, a text with no ending, two sentences in
\* one chunk, an emotion block
StreamChunks ==
    {<<97, 46>>, <<98>>, <<99, 46, 100, 46>>, OPEN_EMOTION \o EMOTION_HAPPY \o CLOSE_EMOTION}

RECURSIVE StreamResponses(_)
StreamResponses(n) ==
    IF n = 0 THEN {<<>>}
    ELSE StreamResponses(n - 1)
            \cup {Append(r, p) : r \in StreamResponses(n - 1), p \in StreamChunks}

othersOfStream == <<gatewayVars, asrVars, shutVars, twoVars, codecVars, dispatchVars>>

\* process_user_input_stream(user_text) is called: the caller holds the generator, its
\* body has not begun.
CallStream(user_text, chunks) ==
    /\ config # NoConfig
    /\ sp_pc \in {"idle", "done"}
    /\ nStreams < MaxStreams
    /\ nStreams' = nStreams + 1
    /\ sp_pc' = "created"
    /\ sp_user_text' = user_text
    /\ llm_left' = chunks
    /\ tts_started' = <<>>
    /\ chunks_out' = <<>>
    /\ interrupt_issued' = "none"
    /\ UNCHANGED <<_interrupted, sp_full_response, sp_seq, pending, cs_full_text>>
    /\ UNCHANGED <<splitVars, ctxVars, convVars, othersOfStream>>

\* The first iteration: process_user_input_stream, lines 104-120, adds the user
\* message and iterates process, whose lines 61-64 clear _interrupted and reset the
\* splitter.
BeginStream ==
    /\ sp_pc = "created"
    /\ messages' = _trim_if_needed(
                      Append(messages, [role |-> "user", content |-> sp_user_text]), config)
    /\ nAdds' = nAdds + 1
    /\ cs_full_text' = <<>>
    /\ sp_full_response' = <<>>
    /\ sp_seq' = 0
    /\ _interrupted' = FALSE
    /\ buffer' = <<>>
    /\ sp_pc' = "next_chunk"
    /\ UNCHANGED <<llm_left, sp_user_text, pending, tts_started, chunks_out, interrupt_issued,
                   nStreams>>
    /\ UNCHANGED <<fedText, yielded, nFeeds, lastCall, config, convVars, othersOfStream>>

\* process, lines 68-73: chat_stream gives a chunk or ends; the chunk is dropped and
\* the loop left when _interrupted is set, else it is given to feed.
NextChunk ==
    /\ sp_pc = "next_chunk"
    /\ IF llm_left = <<>>
       THEN /\ sp_pc' = "after_loop"
            /\ UNCHANGED <<llm_left, sp_full_response, buffer>>
       ELSE /\ llm_left' = Tail(llm_left)
            /\ IF _interrupted
               THEN /\ sp_pc' = "after_loop"
                    /\ UNCHANGED <<sp_full_response, buffer>>
               ELSE /\ sp_full_response' = sp_full_response \o Head(llm_left)
                    /\ buffer' = buffer \o Head(llm_left)
                    /\ sp_pc' = "next_sentence"
    /\ UNCHANGED <<_interrupted, sp_user_text, sp_seq, pending, cs_full_text, tts_started,
                   chunks_out, interrupt_issued, nStreams>>
    /\ UNCHANGED <<fedText, yielded, nFeeds, lastCall, ctxVars, convVars, othersOfStream>>

\* process, lines 76-88: feed extracts the next sentence; the loop over the sentences
\* is left when there is none or when _interrupted is set, else the sentence is
\* cleaned and synthesize is called for what is left of it.
NextSentence ==
    /\ sp_pc = "next_sentence"
    /\ LET r == _try_extract_sentence(buffer)
           clean_sentence == _clean_text_for_tts(r.sentence)
       IN /\ buffer' = r.buffer
          /\ IF ~(r.found /\ r.sentence # <<>>) \/ _interrupted
             THEN /\ sp_pc' = "next_chunk"
                  /\ UNCHANGED <<sp_seq, pending, tts_started>>
             ELSE /\ sp_seq' = sp_seq + 1
                  /\ IF clean_sentence # <<>>
                     THEN /\ sp_pc' = "synth"
                          /\ pending' = clean_sentence
                          /\ tts_started' = Append(tts_started,
                                [text |-> clean_sentence, issued |-> interrupt_issued])
                     ELSE /\ sp_pc' = "next_sentence"
                          /\ UNCHANGED <<pending, tts_started>>
    /\ UNCHANGED <<_interrupted, llm_left, sp_user_text, sp_full_response, cs_full_text,
                   chunks_out, interrupt_issued, nStreams>>
    /\ UNCHANGED <<fedText, yielded, nFeeds, lastCall, ctxVars, convVars, othersOfStream>>

\* process, lines 90-106 and 116-130: synthesize returns and the TTSChunk is yielded,
\* with the audio or without it; process_user_input_stream, lines 121-122, adds its
\* text to full_text and yields it on.
SynthReturns(success) ==
    /\ sp_pc \in {"synth", "flush_synth"}
    /\ chunks_out' = Append(chunks_out, [text |-> pending, audio |-> success, seq |-> sp_seq])
    /\ cs_full_text' = cs_full_text \o pending
    /\ sp_pc' = IF sp_pc = "synth" THEN "next_sentence" ELSE "finish"
    /\ UNCHANGED <<_interrupted, llm_left, sp_user_text, sp_full_response, sp_seq, pending,
                   tts_started, interrupt_issued, nStreams>>
    /\ UNCHANGED <<splitVars, ctxVars, convVars, othersOfStream>>

\* process, lines 108-114: unless _interrupted is set the splitter is flushed and
\* synthesize is called for what is left of the remainder.
AfterLoop ==
    /\ sp_pc = "after_loop"
    /\ IF ~_interrupted /\ Strip(buffer) # <<>>
       THEN /\ buffer' = <<>>
            /\ IF _clean_text_for_tts(Strip(buffer)) # <<>>
               THEN /\ sp_seq' = sp_seq + 1
                    /\ pending' = _clean_text_for_tts(Strip(buffer))
                    /\ tts_started' = Append(tts_started,
                          [text |-> _clean_text_for_tts(Strip(buffer)),
                           issued |-> interrupt_issued])
                    /\ sp_pc' = "flush_synth"
               ELSE /\ sp_pc' = "finish"
                    /\ UNCHANGED <<sp_seq, pending, tts_started>>
       ELSE /\ sp_pc' = "finish"
            /\ UNCHANGED <<buffer, sp_seq, pending, tts_started>>
    /\ UNCHANGED <<_interrupted, llm_left, sp_user_text, sp_full_response, cs_full_text,
                   chunks_out, interrupt_issued, nStreams>>
    /\ UNCHANGED <<fedText, yielded, nFeeds, lastCall, ctxVars, convVars, othersOfStream>>

\* process, lines 132-136, with handle_emotion: the emotion of the whole response
\* becomes current_emotion; then process_user_input_stream, lines 124-128: the
\* finally clause adds full_text to the context when it is not empty.
FinishStream ==
    /\ sp_pc = "finish"
    /\ current_emotion' = IF sp_full_response # <<>>
                             /\ parse(sp_full_response).emotion # current_emotion
                          THEN parse(sp_full_response).emotion
                          ELSE current_emotion
    /\ IF cs_full_text # <<>>
       THEN /\ messages' = _trim_if_needed(
                  Append(messages, [role |-> "assistant", content |-> Len(cs_full_text)]),
                  config)
            /\ nAdds' = nAdds + 1
       ELSE UNCHANGED <<messages, nAdds>>
    /\ sp_pc' = "done"
    /\ UNCHANGED <<_interrupted, llm_left, sp_user_text, sp_full_response, sp_seq, pending,
                   cs_full_text, tts_started, chunks_out, interrupt_issued, nStreams>>
    /\ UNCHANGED <<splitVars, config, llm_chunks, llm_response, nTurns, othersOfStream>>

\* ConversationService.interrupt: StreamProcessor.interrupt sets the flag.  It is
\* called while the caller holds the generator of a turn that has not ended.
StreamInterrupt ==
    /\ sp_pc \notin {"idle", "done"}
    /\ _interrupted' = TRUE
    /\ interrupt_issued' = IF interrupt_issued # "none" THEN interrupt_issued
                           ELSE IF sp_pc = "created" THEN "before_start" ELSE "running"
    /\ UNCHANGED <<sp_pc, llm_left, sp_user_text, sp_full_response, sp_seq, pending,
                   cs_full_text, tts_started, chunks_out, nStreams>>
    /\ UNCHANGED <<splitVars, ctxVars, convVars, othersOfStream>>

NextStream ==
    \/ \E cfg \in Configs : NewConversationService(cfg)
    \/ \E chunks \in StreamResponses(MaxStreamChunks) : CallStream(1, chunks)
    \/ BeginStream
    \/ NextChunk
    \/ NextSentence
    \/ \E success \in BOOLEAN : SynthReturns(success)
    \/ AfterLoop
    \/ FinishStream
    \/ StreamInterrupt

SpecStream == Init /\ [][NextStream]_vars

\* ---------------------------------------------------------------- properties

\* C1: _session_started is true only if a SESSION_STARTED (150) was handled by the
\* receive loop and no SESSION_FINISHED, SESSION_FAILED, finish_session(), close()
\* or end of the receive loop has happened since.
C1_SessionFlagWindow == sessionStarted => sessWindow

\* A session is running: the flag is set inside its window and a forwarder exists.
C1_Witness == sessionStarted /\ sessWindow /\ nFwd >= 1 /\ upSess

\* The tts_end envelopes the interrupt handler has written.
InterruptEnds ==
    {i \in 1..Len(clientOut) : clientOut[i].type = "tts_end" /\ clientOut[i].src = 0}

\* C2: after the tts_end (empty full_text) that answers an interrupt, no tts_chunk
\* envelope is written to the client, whatever the interleaving of the reader and the
\* forwarder, for as long as no new turn or session has been started.
C2_NoChunkAfterInterrupt ==
    turnInterrupted =>
        \A i \in InterruptEnds : \A j \in (i + 1)..Len(clientOut) :
            (\A k \in InterruptEnds : k <= i) => clientOut[j].type # "tts_chunk"

\* C3: a fresh request (audio_data, text_query, say_hello) sent after an interrupt
\* clears the interrupted flag, so the events of the new turn are delivered again.
C3_FreshRequestClearsInterrupt == freshAfterInt => ~interrupted

\* C4: within a turn the tts_chunk envelopes written to the client carry seq 0, 1,
\* 2, ...: each one written carries the number of chunks written since the turn
\* began (asr_started, tts_ended, an interrupt, a new session).
C4_ChunkSeqCountsFromZero ==
    [][\A k \in 1..Len(clientOut') :
          (k > Len(clientOut) /\ clientOut'[k].type = "tts_chunk")
              => clientOut'[k].seq = expectSeq]_vars

\* Envelopes the forwarders have produced from upstream frames.
Forwarded ==
    {i \in 1..Len(clientOut) : clientOut[i].src > 0 /\ clientOut[i].type # "session_started"}

\* C5: the envelopes the forwarder writes to the client are in the order of the
\* upstream frames they were produced from, and no frame of a turn is taken off the
\* response queue without an envelope except by the drop while interrupted.
C5_ClientOrderIsWireOrder ==
    /\ \A i, j \in Forwarded : i < j => clientOut[i].src < clientOut[j].src
    /\ lostFrames = {}

\* C6: no TASK_REQUEST (200) and no CHAT_TEXT_QUERY (501) frame is written upstream
\* while _session_started is false; audio_data and text_query handled then send
\* nothing and leave the client's socket, flags and receive task unchanged.
C6_NoRequestBeforeSession ==
    /\ [](\A i \in 1..Len(upSent) :
             upSent[i].ev \in {EVENT_TASK_REQUEST, EVENT_CHAT_TEXT_QUERY} => upSent[i].st)
    /\ [][((HandleAudio \/ HandleText) /\ ~sessionStarted)
             => UNCHANGED <<upSent, cliVars>>]_vars

\* Both kinds of request have been written upstream inside a session.
C6_Witness ==
    /\ \E i \in 1..Len(upSent) : upSent[i].ev = EVENT_TASK_REQUEST /\ upSent[i].st
    /\ \E i \in 1..Len(upSent) : upSent[i].ev = EVENT_CHAT_TEXT_QUERY /\ upSent[i].st

\* C7: session_started is emitted (start_session has returned true) only after a
\* SESSION_STARTED frame that answers the START_SESSION frame this call has sent.
C7_StartedAnswersOwnRequest ==
    lastStart.ev # 0 =>
        /\ lastStart.ev = EVENT_SESSION_STARTED
        /\ lastStart.call # 0
        /\ lastStart.ans = lastStart.call

\* C8: start_session is over once ten seconds have passed since the call, whatever
\* frames reach the response queue in between.
C8_StartSessionBoundedByTimeout ==
    readerPc = "ss_wait" => sinceCall <= StartSessionTimeout

\* C9: once a forwarder has sent the error envelope of a fatal upstream error and
\* ended, the connection is torn down: the dialog service and its client are closed
\* and the manager has released the connection's state.
C9_FatalErrorTearsDown ==
    (\E f \in FwdIds : <<f, "fatal">> \in endedOn) =>
        ~e2e_service /\ ~hasClient /\ ws = "none" /\ ~active_connection

\* C10: a non-fatal upstream error (message_type SERVER_ERROR, or event 599) is
\* never written to the client as an error envelope and never ends a forwarder.
C10_NonFatalErrorIsOnlyLogged ==
    /\ \A i \in 1..Len(clientOut) :
          clientOut[i].type = "error" => clientOut[i].text # <<"nonfatal">>
    /\ \A f \in FwdIds : <<f, "nonfatal">> \notin endedOn

\* The one forwarder has logged a non-fatal error and has forwarded a later frame.
C10_Witness ==
    /\ nFwd = 1
    /\ fwd[1].warned > 0
    /\ fwd[1].pc # "done"
    /\ \E i \in 1..Len(clientOut) :
          clientOut[i].src > fwd[1].warned /\ clientOut[i].type \in {"chat_text", "tts_chunk"}

\* A text frame that is malformed for the e2e endpoint, for the ASR endpoint
E2EMalformed ==
    \/ \E d \in DecodeErrors : E2EInvalidJson(d)
    \/ E2ENotAnObject
    \/ \E t \in E2EDataReaders : E2EBadData(t)

ASRMalformed ==
    \/ \E d \in DecodeErrors : ASRInvalidJson(d)
    \/ ASRNotAnObject
    \/ ASRBadData

\* C11: a malformed text frame (not JSON, JSON that is not an object, data of the
\* wrong type) never ends the connection: the reader loop goes on, the dialog
\* service stays and the connection stays stored.
C11_MalformedFrameKeepsConnection ==
    [][/\ E2EMalformed => (readerPc' = "idle" /\ e2e_service' /\ active_connection')
       /\ ASRMalformed => asr_connection']_vars

\* The answer to a frame that is not JSON: one more envelope, an error with code
\* UNKNOWN_ERROR whose message contains "Invalid JSON"
IsInvalidJsonAnswer(before, after, textOf(_)) ==
    /\ Len(after) = Len(before) + 1
    /\ after[Len(after)].type = "error"
    /\ after[Len(after)].code = "UNKNOWN_ERROR"
    /\ Contains(textOf(after[Len(after)]), <<"Invalid", "JSON">>)

EnvelopeText(env) == env.text

EnvelopeMessage(env) == env.message

\* C12: on both endpoints a text frame that is not JSON is answered by exactly one
\* error envelope with code UNKNOWN_ERROR and a message containing "Invalid JSON",
\* and the socket stays open.
C12_InvalidJsonAnswer ==
    [][/\ (\E d \in DecodeErrors : E2EInvalidJson(d)) =>
             /\ IsInvalidJsonAnswer(clientOut, clientOut', EnvelopeText)
             /\ readerPc' = "idle" /\ active_connection'
       /\ (\E d \in DecodeErrors : ASRInvalidJson(d)) =>
             /\ IsInvalidJsonAnswer(asrOut, asrOut', EnvelopeMessage)
             /\ asr_connection']_vars

\* The receive task runs only on a socket the gateway has not closed.
SocketOutlivesReceiveTask == recvTask => ws # "none"

\* The forwarder the manager holds has ended when cancel() is called on the
\* receive task.
HeldForwarderEndsFirst ==
    recvCancel => HeldForwarderDone

\* C13: on disconnect the forwarder is cancelled first, then the receive task is
\* cancelled and waited for, then the upstream socket is closed: no forwarder is
\* left running when cancel() is called on the receive task, and the socket is
\* never closed while the receive task runs.
C13_ShutdownOrder ==
    /\ recvCancel => \A f \in FwdIds : fwd[f].pc \in {"none", "done"}
    /\ readerPc = "closed" => \A f \in FwdIds : fwd[f].pc \in {"none", "done"}
    /\ recvTask => ws # "none"

\* C14: at most one send is in progress on an upstream socket at any time (a frame
\* is written when its send is called, so the frames are in the order of the calls).
C14_OneSendAtATime ==
    \A c, d \in Conns : (send_on[c] # 0 /\ send_on[c] = send_on[d]) => c = d

\* C15: with two connections open each has its own manager and dialog service: an
\* envelope that comes from the upstream session a connection started is written
\* to that connection's socket only, and a connection's disconnect closes no
\* service but the one its own connect() made.
C15_ConnectionsIsolated ==
    /\ \A c \in Conns : \A i \in 1..Len(conn_out[c]) :
           conn_out[c][i].owner \in {0, c}
    /\ \A s \in Conns : services[s].closedBy \in {0, s}

\* client.connect() fails in this step: start_session on a service without a
\* connected client, and the socket cannot be opened or StartConnection not sent.
ConnectFails == \E o \in {"refused", "send_failed"} : HandleStartSession(o)

\* C16: when client.connect() fails a fatal error is reported through on_error (it
\* lands on the service's error queue), no receive task is started, connect returns
\* false: start_session is answered with one NETWORK_ERROR envelope, no wait for
\* SessionStarted begins, no forwarder is created and no session_started is written.
C16_ConnectFailureReported ==
    [][ConnectFails =>
          /\ errorQueue' # <<>>
          /\ errorQueue'[Len(errorQueue')].fatal
          /\ ~recvTask'
          /\ clientOut' = Append(clientOut, ErrorEnvelope("NETWORK_ERROR", 0))
          /\ readerPc' = "idle"
          /\ UNCHANGED <<nFwd, mgr_receive_task>>]_vars

\* A failed connect has been answered: the client exists, it has no receive task,
\* the fatal error is queued and NETWORK_ERROR is the last envelope written.
C16_Witness ==
    /\ hasClient
    /\ ~recvTask
    /\ ws = "closed"
    /\ connected
    /\ errorQueue = <<[fatal |-> TRUE, src |-> 0]>>
    /\ clientOut # <<>>
    /\ clientOut[Len(clientOut)].code = "NETWORK_ERROR"

\* The envelopes a step writes to the client
Written(k) == k > Len(clientOut) /\ k <= Len(clientOut')

\* C17: every tts_end produced from an upstream TTS_ENDED carries as full_text the
\* texts, in order, of the chat_text envelopes written to the client during that
\* turn, and every completed turn gets its tts_end: no TTS_ENDED is taken off the
\* response queue without one, except by the drop while interrupted.
C17_TtsEndCarriesTurnText ==
    [][/\ \A k \in 1..Len(clientOut') :
             (Written(k) /\ clientOut'[k].type = "tts_end" /\ clientOut'[k].src > 0)
                 => clientOut'[k].text = turnChats
       /\ ~(WaiterDequeue /\ Head(responseQueue).ev = EVENT_TTS_ENDED)]_vars

\* The first half of C17 alone
TtsEndTextOfOneForwarder ==
    [][\A k \in 1..Len(clientOut') :
             (Written(k) /\ clientOut'[k].type = "tts_end" /\ clientOut'[k].src > 0)
                 => clientOut'[k].text = turnChats]_vars

\* C18: service.interrupt() is idempotent and touches only the downstream filter:
\* after the call _interrupted is set, a call made while it is set changes nothing
\* of the service or the client, and no call changes the socket, the receive task,
\* the connected and session flags or the two queues, or writes a frame upstream.
C18_InterruptOnlyFilters ==
    [][HandleInterrupt =>
          /\ interrupted'
          /\ UNCHANGED <<ws, recvTask, connected, sessionStarted, responseQueue, errorQueue,
                         hasClient, upSent>>
          /\ interrupted => UNCHANGED <<svcVars, cliVars, upVars>>]_vars

\* interrupt was handled twice in a running session.
C18_Witness ==
    /\ interrupted
    /\ Cardinality({i \in 1..Len(clientOut) :
                       clientOut[i].type = "tts_end" /\ clientOut[i].src = 0}) >= 2
    /\ ws = "open"
    /\ recvTask
    /\ sessionStarted
\* The frame written by build_event_frame or build_audio_frame carries the session id
\* of the call.
SessionWritten ==
    \/ codec_call.kind = "build_audio_frame"
    \/ codec_call.kind = "build_event_frame" /\ codec_call.event_id >= SessionLevel

\* The fields the e2e parse_response returned are those of the build call.
E2EReproduced ==
    /\ codec_result.e2e.has_event
    /\ codec_result.e2e.event = codec_call.event_id
    /\ SessionWritten =>
          /\ codec_result.e2e.has_session_id
          /\ codec_result.e2e.session_id = codec_call.session_id
    /\ codec_result.e2e.payload_kind # "none"
    /\ codec_result.e2e.payload_msg = codec_call.payload

\* A session-level event frame built with the server's message type and a session id
\* that is not empty is reproduced by parse_response: the event id, the session id and
\* the document inside the gzip member.
ServerTypedSessionFrameReproduced ==
    (/\ codec_result.parser = "e2e"
     /\ codec_call.kind = "build_event_frame"
     /\ codec_call.message_type = SERVER_FULL_RESPONSE
     /\ codec_call.event_id >= SessionLevel
     /\ codec_call.session_id # <<>>)
    => E2EReproduced /\ codec_result.e2e.payload_kind = "json"

\* Every frame the four builders write with a client message type is answered by the
\* parse operation of its module with an empty result.
ClientTypedFrameNotParsed ==
    /\ (codec_result.parser = "e2e"
        /\ codec_call.message_type \in {CLIENT_FULL_REQUEST, CLIENT_AUDIO_ONLY_REQUEST})
       => codec_result.e2e = EmptyResult
    /\ codec_result.parser = "utils" => codec_result.utils = UtilsNone

\* C19: building a frame with build_event_frame, build_audio_frame,
\* build_full_client_request or build_audio_only_request and parsing it reproduces
\* the event id, the session id and the payload of the call (the parse operation of
\* utils/protocol.py returns no sequence field, so a result that is not None stands
\* for the sequence there).
C19_RoundTrip ==
    /\ codec_result.parser = "e2e" => E2EReproduced
    /\ codec_result.parser = "utils" =>
          /\ codec_result.utils.kind = "asr"
          /\ codec_result.utils.doc = codec_call.payload

\* The sequence field of the frame build_audio_only_request returned
SequenceField == FromBytesSigned(Slice(codec_call.frame, 4, 8))

\* The flags of the frame build_audio_only_request returned
FlagsField == codec_call.frame[2] % 16

\* build_audio_only_request writes seq with POSITIVE_SEQ when the frame is not the
\* last one and -seq with NEGATIVE_SEQ_LAST when it is.
SequenceFieldWritten ==
    codec_call.kind = "build_audio_only_request" =>
        /\ SequenceField = IF codec_call.is_last THEN -codec_call.seq ELSE codec_call.seq
        /\ FlagsField = IF codec_call.is_last THEN MsgTypeFlag.NEGATIVE_SEQ_LAST
                        ELSE MsgTypeFlag.POSITIVE_SEQ

\* C20: build_audio_only_request writes the sequence as a signed 32-bit big-endian
\* value, seq with POSITIVE_SEQ when the frame is not the last one and -seq with
\* NEGATIVE_SEQ_LAST when it is, and the sequence value of a last frame is always
\* negative.
C20_LastFrameNegative ==
    /\ SequenceFieldWritten
    /\ (codec_call.kind = "build_audio_only_request" /\ codec_call.is_last)
       => SequenceField < 0

\* A forwarder finds the upstream connection lost: its wait on the empty response
\* queue times out and the service is no longer connected (receive_responses,
\* lines 239-246).
ForwarderFindsConnectionLost ==
    \E f \in FwdIds :
        /\ fwd[f].pc = "wait"
        /\ fwd'[f].pc = "done"
        /\ responseQueue = <<>>
        /\ ~svc_is_connected

\* The error envelopes written in the step
ErrorsWritten ==
    {k \in 1..Len(clientOut') : Written(k) /\ clientOut'[k].type = "error"}

\* An error envelope is written for a SESSION_FAILED frame with code UNKNOWN_ERROR.
SessionFailedIsUnknownError ==
    [][\A k \in ErrorsWritten :
          clientOut'[k].src # 0 => clientOut'[k].code = "UNKNOWN_ERROR"]_vars

\* C21: the error envelope carries NETWORK_ERROR when the cause is an upstream
\* transport problem (the handshake failed, the upstream connection was closed
\* during a session) and UNKNOWN_ERROR when the cause is a SESSION_FAILED or a
\* DIALOG_COMMON_ERROR frame.
C21_ErrorCodeByCause ==
    [][\A k \in ErrorsWritten :
          /\ ForwarderFindsConnectionLost => clientOut'[k].code = "NETWORK_ERROR"
          /\ (\E o \in {"refused", "send_failed"} : HandleStartSession(o))
                => clientOut'[k].code = "NETWORK_ERROR"
          /\ clientOut'[k].src # 0 => clientOut'[k].code = "UNKNOWN_ERROR"]_vars

RECURSIVE Concat(_)
\* The texts of a sequence, joined
Concat(ss) == IF ss = <<>> THEN <<>> ELSE Head(ss) \o Concat(Tail(ss))

\* The characters of a text that are not whitespace, in order
NonWhitespace(s) == SelectSeq(s, LAMBDA c : c \notin Whitespace)

\* At every moment what was yielded and what the buffer still holds make up what was
\* fed, whitespace aside.
NothingLostSoFar ==
    NonWhitespace(Concat(yielded)) \o NonWhitespace(buffer) = NonWhitespace(fedText)

\* C22: after the final flush the sentences the feed calls yielded, joined in order
\* with the result of the flush, are the fed chunks joined, up to whitespace: no
\* character that is not whitespace is lost, duplicated or reordered.
C22_SplitterKeepsText ==
    lastCall = "flush" => NonWhitespace(Concat(yielded)) = NonWhitespace(fedText)

\* Two long chunks were cut at the comma and a sentence was cut at its ending, and
\* the rest was flushed.
C22_Witness ==
    /\ lastCall = "flush"
    /\ Len(yielded) >= 3
    /\ \E k \in 1..Len(yielded) : yielded[k][Len(yielded[k])] \in COMMA_MARKS
    /\ \E k \in 1..Len(yielded) : yielded[k][Len(yielded[k])] \in SENTENCE_ENDINGS
    /\ \E k \in 1..Len(yielded) : yielded[k][Len(yielded[k])] = 97

\* The manager was constructed and a message was added
Added == config # NoConfig /\ nAdds > 0

\* The roles of the history alternate, beginning with the user
Alternating(msgs) ==
    \A k \in 1..Len(msgs) : msgs[k].role = IF k % 2 = 1 THEN "user" ELSE "assistant"

\* C23: after every add_user_message and add_assistant_message the history holds at
\* least 2 * min_history_count messages or its estimated token count is at most
\* max_tokens.
C23_TrimmedWithinCapOrAtFloor ==
    Added => \/ Len(messages) >= 2 * config.min_history_count
             \/ estimate_tokens(messages, config) <= config.max_tokens

\* C24: trimming never takes the history below min_history_count rounds: a history
\* of at least 2 * min_history_count messages before an append holds at least
\* 2 * min_history_count messages after the append and its trimming.
C24_FloorKept ==
    [][(config # NoConfig /\ Len(messages) >= 2 * config.min_history_count)
          => Len(messages') >= 2 * config.min_history_count]_vars

\* The floor is missed by at most one message: trimming stops above
\* 2 * min_history_count - 2.
FloorMissedByOne ==
    [][(config # NoConfig /\ Len(messages) >= 2 * config.min_history_count)
          => Len(messages') >= 2 * config.min_history_count - 1]_vars

\* C25: EmotionParser.parse never returns an emotion outside VALID_EMOTIONS (a
\* missing or unknown emotion falls back to the default), and current_emotion of the
\* ConversationService is one of them in every state.
C25_EmotionAlwaysValid ==
    /\ parse(Join(llm_chunks)).emotion \in VALID_EMOTIONS
    /\ llm_chunks # <<>> => llm_response.emotion \in VALID_EMOTIONS
    /\ current_emotion \in VALID_EMOTIONS

\* In the second turn the LLM gave an emotion tag with a word that is no emotion: the
\* parser fell back to the default and the service holds the default.
C25_Witness ==
    /\ nTurns = MaxTurns
    /\ Search(Join(llm_chunks), OPEN_EMOTION, CLOSE_EMOTION).found
    /\ Strip(Search(Join(llm_chunks), OPEN_EMOTION, CLOSE_EMOTION).group) \notin VALID_EMOTIONS
    /\ llm_response.emotion = DEFAULT_EMOTION
    /\ current_emotion = DEFAULT_EMOTION
    /\ Len(messages) >= 2

\* The step is start_session taking a frame off the response queue and discarding
\* it: the reader is in the wait, the head of the queue goes, it is no
\* SESSION_STARTED, and no forwarder took it.
DiscardedByStartSession ==
    /\ readerPc = "ss_wait"
    /\ responseQueue # <<>>
    /\ responseQueue' = Tail(responseQueue)
    /\ fwd' = fwd
    /\ ~IsSessionStartedFrame(Head(responseQueue))

\* The events of a dialogue turn: ASR, chat and TTS
DialogueTurnEvents ==
    {EVENT_ASR_INFO, EVENT_ASR_RESPONSE, EVENT_ASR_ENDED, EVENT_CHAT_RESPONSE,
     EVENT_CHAT_ENDED, EVENT_TTS_SENTENCE_START, EVENT_TTS_RESPONSE, EVENT_TTS_ENDED}

\* The first start_session on a connection discards the CONNECTION_STARTED frame only.
FirstStartDiscardsBootstrap ==
    [][(DiscardedByStartSession /\ ssSent = 2 /\ nMsgs = 1)
          => Head(responseQueue).ev = EVENT_CONNECTION_STARTED]_vars

\* C26: the frames start_session takes off the queue and discards while it waits for
\* SESSION_STARTED are connection-bootstrap frames only; no frame of a dialogue turn
\* (an ASR, chat or TTS event) is discarded by it.
C26_OnlyBootstrapDiscarded ==
    [][DiscardedByStartSession => Head(responseQueue).ev \notin DialogueTurnEvents]_vars

\* How often on_response was called with the frame
ResponseCalls(fr) ==
    Cardinality({k \in 1..Len(on_response_calls) : on_response_calls[k] = fr})

\* How often on_error was called for the frame with the flag
ErrorCalls(fr, fatal) ==
    Cardinality({k \in 1..Len(on_error_calls) :
                    on_error_calls[k] = [fr |-> fr, fatal |-> fatal]})

\* C27: every parsed frame that is not empty is handed to exactly one callback:
\* SESSION_FAILED to on_error with fatal true, a SERVER_ERROR frame or a
\* DIALOG_COMMON_ERROR to on_error with fatal false, every other frame to
\* on_response; none reaches both and none is dropped.
C27_ExactlyOneCallback ==
    /\ \A k \in 1..Len(received) :
          LET fr == received[k] IN
          fr # NoFrame =>
             IF fr.ev = EVENT_SESSION_FAILED
             THEN ErrorCalls(fr, TRUE) = 1 /\ ErrorCalls(fr, FALSE) = 0
                  /\ ResponseCalls(fr) = 0
             ELSE IF fr.mt = "SERVER_ERROR" \/ fr.ev = EVENT_DIALOG_COMMON_ERROR
             THEN ErrorCalls(fr, FALSE) = 1 /\ ErrorCalls(fr, TRUE) = 0
                  /\ ResponseCalls(fr) = 0
             ELSE ResponseCalls(fr) = 1 /\ ErrorCalls(fr, TRUE) = 0
                  /\ ErrorCalls(fr, FALSE) = 0
    /\ Len(on_response_calls) + Len(on_error_calls)
          = Cardinality({k \in 1..Len(received) : received[k] # NoFrame})

\* A SESSION_FAILED and a DIALOG_COMMON_ERROR were dispatched: two calls of on_error,
\* the first fatal, and none of on_response.
C27_Witness ==
    /\ Len(received) = 2
    /\ received[1].ev = EVENT_SESSION_FAILED
    /\ received[2].ev = EVENT_DIALOG_COMMON_ERROR
    /\ Len(on_error_calls) = 2
    /\ on_error_calls[1].fatal
    /\ ~on_error_calls[2].fatal
    /\ on_response_calls = <<>>

\* A step of the receive task of the client
ReceiveTaskStep == RecvFrame \/ RecvEnd

\* A step in which client.close ran: the manager disconnected, on a client disconnect
\* or on an exception out of a handler
CloseStep == hasClient /\ ~hasClient' /\ ws' = "none"

\* A step in which service.connect made a new client and called client.connect
ConnectStep == ~svc_is_connected /\ \E o \in {"ok", "refused", "send_failed"} : HandleStartSession(o)

\* The statement of C28 as it was made: connected and sessionStarted change only in
\* a step of the receive task, or sessionStarted alone becomes false in
\* finish_session.
C28_OnlyReceiveTaskWrites ==
    [][(connected' # connected \/ sessionStarted' # sessionStarted)
          => \/ ReceiveTaskStep
             \/ HandleFinish /\ connected' = connected /\ ~sessionStarted']_vars

\* C28: the flags of the client are written by the receive task, by connect (a new
\* client has both false, connected becomes true once the socket is open), by
\* finish_session (sessionStarted becomes false) and by close (both become false);
\* start_session, send_audio, send_text_query, say_hello and finish_connection leave
\* both as they are.
C28_FlagWriters ==
    [][/\ connected' # connected
          => \/ ReceiveTaskStep
             \/ CloseStep /\ ~connected'
             \/ ConnectStep /\ connected' = (ws' # "none")
       /\ sessionStarted' # sessionStarted
          => \/ ReceiveTaskStep
             \/ CloseStep /\ ~sessionStarted'
             \/ ConnectStep /\ ~sessionStarted'
             \/ HandleFinish /\ ~sessionStarted']_vars

\* connect opened the socket, set connected and sent StartConnection and StartSession,
\* and the receive task has read no frame yet: connected was written by connect.
C28_Witness ==
    /\ hasClient
    /\ connected
    /\ recvTask
    /\ upRead = 0
    /\ Len(upSent) = 2
    /\ ~sessionStarted

\* C29: on every upstream connection the first frame written is START_CONNECTION, so
\* no START_SESSION precedes it; the receive task runs only once that frame has been
\* written; and a receive task is launched only by the connect of a new client, when
\* none is running.
C29_StartConnectionFirst ==
    [][/\ upSent' # <<>> => upSent'[1].ev = EVENT_START_CONNECTION
       /\ upSent' # <<>> => upSent'[1].ev # EVENT_START_SESSION
       /\ recvTask' => upSent' # <<>>
       /\ (recvTask' /\ ~recvTask) => ConnectStep
       /\ recvTask => ~ConnectStep]_vars

\* A connection was made: START_CONNECTION was written first and START_SESSION after
\* it, the receive task is running and has read a frame.
C29_Witness ==
    /\ recvTask
    /\ Len(upSent) >= 2
    /\ upSent[1].ev = EVENT_START_CONNECTION
    /\ upSent[2].ev = EVENT_START_SESSION
    /\ upRead > 0

\* parse_response was applied to an event frame of the server's message type whose
\* event is a connection-level one
ConnectionLevelFrameParsed ==
    /\ codec_result.parser = "e2e"
    /\ codec_call.kind = "build_event_frame"
    /\ codec_call.message_type = SERVER_FULL_RESPONSE
    /\ codec_call.event_id < SessionLevel

\* The bytes of a frame after its header and its event id
AfterEvent(frame) == From(frame, 8)

\* What parse_response does with a connection-level frame: the size of the payload is
\* read as the size of a session id, the payload bytes are returned as session_id and
\* no payload_msg is left.
PayloadTakenAsSessionId ==
    ConnectionLevelFrameParsed =>
       /\ codec_result.e2e.has_event
       /\ codec_result.e2e.event = codec_call.event_id
       /\ codec_result.e2e.has_session_id
       /\ codec_result.e2e.session_id = From(AfterEvent(codec_call.frame), 4)
       /\ codec_result.e2e.payload_kind = "none"

\* C30: parse_response applied to a server frame whose event id is below 100 yields
\* no session_id and the payload the frame declares as payload_msg; a session_id is
\* returned only for frames whose event id is 100 or more.
C30_NoSessionIdBelowSessionLevel ==
    /\ ConnectionLevelFrameParsed =>
          /\ ~codec_result.e2e.has_session_id
          /\ codec_result.e2e.payload_kind # "none"
          /\ codec_result.e2e.payload_msg = codec_call.payload
    /\ (codec_result.parser = "e2e" /\ codec_result.e2e.has_session_id)
          => codec_result.e2e.event >= SessionLevel

\* The frames C31 calls malformed
MalformedFrames == TooShortFrames \cup UnknownTypeFrames \cup BadPayloadFrames

\* A frame that is too short or of an unknown message type is dropped: no callback is
\* called and the session flag is kept.
UnparsedFrameDropped ==
    [][\A b \in TooShortFrames \cup UnknownTypeFrames :
          ReceiveRaw(b) =>
             /\ received'[Len(received')] = NoFrame
             /\ UNCHANGED <<sessionStarted, connected, recvTask, on_response_calls,
                            on_error_calls>>]_vars

\* A frame whose payload cannot be decoded is dispatched by its event like any other.
BadPayloadFrameDispatched ==
    [][\A b \in BadPayloadFrames :
          ReceiveRaw(b) =>
             /\ received'[Len(received')] # NoFrame
             /\ Len(on_response_calls') + Len(on_error_calls')
                   = Len(on_response_calls) + Len(on_error_calls) + 1]_vars

\* C31: a malformed upstream frame is dropped without ending the session: no callback
\* is called for it (so no on_error with fatal true), connected and sessionStarted are
\* unchanged and the receive task keeps running.
C31_MalformedFrameDropped ==
    [][\A b \in MalformedFrames :
          ReceiveRaw(b) =>
             UNCHANGED <<sessionStarted, connected, recvTask, on_response_calls,
                         on_error_calls>>]_vars

\* An interrupt issued while process is running is honoured: no synthesize call is
\* made after it.
RunningInterruptHonoured ==
    \A k \in 1..Len(tts_started) : tts_started[k].issued # "running"

\* C32: after interrupt() no further TTS synthesis is started (so no TTSChunk is
\* yielded for a sentence whose synthesis had not started, and the remainder of the
\* flush is not emitted), whenever the interrupt was issued relative to the start of
\* process: no synthesize call is made with an interrupt issued before it.
C32_NoSynthesisAfterInterrupt ==
    \A k \in 1..Len(tts_started) : tts_started[k].issued = "none"

\* process_user_input_stream adds the assistant message exactly when a TTSChunk was
\* yielded, interrupted or not.
AssistantAddedWhenTextYielded ==
    [][FinishStream => (nAdds' = nAdds + 1 <=> chunks_out # <<>>)]_vars

\* C33: when a streamed turn was interrupted the service adds no assistant message to
\* the context at its end.
C33_InterruptedTurnAddsNothing ==
    [][(FinishStream /\ interrupt_issued = "running") => UNCHANGED <<messages, nAdds>>]_vars

\* After client.close returned the receive task has ended, the socket is closed and
\* released and both flags are false.
ClientClosedClean ==
    readerPc = "closed" => ~recvTask /\ ws = "none" /\ ~connected /\ ~sessionStarted

\* C34: after close() returned the receive task has ended, the upstream socket is
\* closed and released, connected and sessionStarted are false, and after
\* disconnect() returned no forwarder task of the connection is still running,
\* whatever client messages came before.
C34_NothingRunsAfterDisconnect ==
    readerPc = "closed" =>
       /\ ~recvTask
       /\ ws = "none"
       /\ ~connected
       /\ ~sessionStarted
       /\ \A f \in FwdIds : fwd[f].pc \in {"none", "done"}

\* C35: in every reachable state sessionStarted implies connected: when the
\* connection is lost or closed or the receive loop ends, the session flag is cleared
\* together with the connection flag.
C35_SessionImpliesConnected == sessionStarted => connected

\* A session had been started (session_started was written to the client) and the
\* receive loop has ended on a closed socket: both flags are false.
C35_Witness ==
    /\ hasClient
    /\ ws = "closed"
    /\ ~recvTask
    /\ ~connected
    /\ ~sessionStarted
    /\ \E k \in 1..Len(clientOut) : clientOut[k].type = "session_started"

\* C36: whenever the client reports is_connected, a receive task launched for its
\* socket is running, also after a connect() that returned false.
C36_ConnectedImpliesReceiveTask == (hasClient /\ is_connected) => recvTask

\* Short of a failed StartConnection send, a connected client has its receive task.
ConnectedImpliesReceiveTaskUnlessSendFailed ==
    (hasClient /\ is_connected /\ upSent # <<>>) => recvTask

\* The forwarder tasks that have been created and have not ended
RunningForwarders == {f \in FwdIds : fwd[f].pc \notin {"none", "done"}}

\* C37: at most one forwarder task exists at any time, and while it runs no other
\* coroutine takes frames off the response queue: the wait of start_session is not
\* in progress beside a running forwarder.
C37_OneConsumer ==
    /\ Cardinality(RunningForwarders) <= 1
    /\ readerPc = "ss_wait" => RunningForwarders = {}

\* The first half of C37 alone fails as well.
AtMostOneForwarder == Cardinality(RunningForwarders) <= 1


\* ------------------------------------------------ the answer to start_session
\* A step of the reader that ends the handling of a start_session message: the
\* handler returns at once, or the wait inside service.start_session ends.
StartSessionEnds ==
    \/ readerPc = "ss_wait" /\ readerPc' # "ss_wait"
    \/ (\E o \in {"ok", "refused", "send_failed"} : HandleStartSession(o))
          /\ readerPc' # "ss_wait"

\* The step appends exactly one envelope to what the client has received
OneEnvelopeWritten == Len(clientOut') = Len(clientOut) + 1

AnswerWritten == clientOut'[Len(clientOut')]

\* C38: every start_session message the gateway handles is answered with exactly
\* one envelope, session_started or an error; with a service at hand the error
\* carries NETWORK_ERROR (connect or the session start failed), and the reader,
\* which holds a service whenever it handles the message, leaves start_session.
C38_StartSessionAnswered ==
    [][StartSessionEnds =>
          /\ OneEnvelopeWritten
          /\ \/ AnswerWritten.type = "session_started"
             \/ AnswerWritten.type = "error" /\ AnswerWritten.code = "NETWORK_ERROR"
          /\ readerPc' = "idle"]_vars

\* What holds of the answer: one envelope, session_started or an error.
StartSessionAnsweredOnce ==
    [][StartSessionEnds =>
          /\ OneEnvelopeWritten
          /\ AnswerWritten.type \in {"session_started", "error"}]_vars


\* --------------------------------------- the report of a lost upstream connection
\* receive_responses, lines 241-247, behind _receive_responses, lines 198-203: the
\* envelope a forwarder writes when it finds the connection gone
LostConnectionEnvelope == Envelope("error", 0, <<"fatal">>, "UNKNOWN_ERROR", 0)

\* The step of forwarder f in which the wait times out on a lost connection
LostConnectionReport(f) == FwdTimeout(f) /\ ~svc_is_connected

\* C39: when the upstream connection closes while the forwarder runs, the client
\* receives exactly one error envelope for it and the forwarder ends, interrupted
\* or not and whatever was queued: the client never receives the report of a lost
\* connection twice in a row.
C39_OneErrorPerClose ==
    \A i \in 1..(Len(clientOut) - 1) :
        ~(clientOut[i] = LostConnectionEnvelope /\ clientOut[i + 1] = LostConnectionEnvelope)

\* What holds of one forwarder: the step that finds the connection gone writes one
\* envelope to the client that is still there, the report, and ends the task,
\* whether or not the service is interrupted; a task that has ended takes no
\* further step.
ForwarderReportsOnceAndEnds ==
    [][\A f \in FwdIds :
          /\ (LostConnectionReport(f) /\ active_connection) =>
                /\ OneEnvelopeWritten
                /\ AnswerWritten = LostConnectionEnvelope
                /\ fwd'[f].pc = "done"
          /\ fwd[f].pc = "done" => fwd'[f].pc = "done"]_vars

\* The report is reached with the service interrupted and with it not interrupted
ReportedWhileInterrupted ==
    \E f \in FwdIds : <<f, "fatal">> \in endedOn /\ interrupted /\ ws = "closed"


\* ------------------------------------------------- the frames of close()
\* The positions of upSent that hold a frame of event e
FramesOf(e) == {i \in 1..Len(upSent) : upSent[i].ev = e}

\* service.close, lines 382-388: FINISH_CONNECTION is the last frame written on
\* its socket and FINISH_SESSION the frame before it.
CloseFramesInOrder ==
    \A i \in FramesOf(EVENT_FINISH_CONNECTION) :
        /\ i = Len(upSent)
        /\ i > 1
        /\ upSent[i - 1].ev = EVENT_FINISH_SESSION

\* Of two FINISH_SESSION frames on one socket the later one ends a later session:
\* a START_SESSION was written between them.
OneFinishPerSession ==
    \A i, j \in FramesOf(EVENT_FINISH_SESSION) :
        i < j => \E k \in (i + 1)..(j - 1) : upSent[k].ev = EVENT_START_SESSION

\* C40: close() writes FINISH_SESSION and then FINISH_CONNECTION, closes the socket
\* after both and writes nothing after FINISH_CONNECTION, and a session gets one
\* FINISH_SESSION at most over the life of the connection: a finish_session
\* message followed by a disconnect does not write it twice.
C40_CloseSequence == CloseFramesInOrder /\ OneFinishPerSession


\* The case the claim names is reached: a finish_session message and then the
\* disconnect have written FINISH_SESSION, FINISH_SESSION, FINISH_CONNECTION.
FinishThenDisconnectWritesTwice ==
    /\ Len(upSent) >= 3
    /\ readerPc = "closed"
    /\ upSent[Len(upSent) - 2].ev = EVENT_FINISH_SESSION
    /\ upSent[Len(upSent) - 1].ev = EVENT_FINISH_SESSION
    /\ upSent[Len(upSent)].ev = EVENT_FINISH_CONNECTION

====
